---- MODULE Spec2Model ----
(***************************************************************************)
(* Diaryx backend: note store (conditional upsert, delete, visibility      *)
(* terms), the POST /api/notes and DELETE /api/notes/:id handlers, the     *)
(* frontmatter subset parser, hasSharedAccess and GET /api/shared-notes.   *)
(*                                                                         *)
(* Strings that the code inspects (trim, toLowerCase, includes, regular    *)
(* expressions) are sequences of one-character strings.  JSON values whose *)
(* type the handler tests are records tagged with their JavaScript type.   *)
(***************************************************************************)
EXTENDS Integers, Sequences, FiniteSets, TLC

VARIABLES
    notes,   \* table diaryx_note: set of rows
    terms,   \* table diaryx_visibility_term: set of rows
    req,     \* per client: the request in progress and the queries it awaits
    now,     \* Date.now()
    hist,    \* history, per (user_id, id): the writes dispatched so far
    last     \* history: the store operation applied last

vars == <<notes, terms, req, now, hist, last>>

(***************************************************************************)
(* Bounds and input sets                                                   *)
(***************************************************************************)
MaxTs == 1        \* timestamps and the clock range over 0..MaxTs
BatchLens == {0, 1, 2}   \* lengths of the notes array of a sync payload

Users == {"u1", "u2"}
NoteIds == {"n1", "n2"}
Clients == {"c1", "c2"}
Timestamps == 0..MaxTs
Keys == Users \X NoteIds

(***************************************************************************)
(* JavaScript values of a JSON payload                                     *)
(***************************************************************************)
Undefined == [type |-> "undefined"]
Null == [type |-> "null"]
Str(s) == [type |-> "string", str |-> s]
Num(n) == [type |-> "number", finite |-> TRUE, num |-> n]
NonFinite == [type |-> "number", finite |-> FALSE]

\* Number.isFinite(v)
IsFinite(v) == v.type = "number" /\ v.finite

(***************************************************************************)
(* Strings                                                                 *)
(***************************************************************************)
UpperChars == <<"A", "B", "C", "D", "E", "F", "G", "H", "I", "J", "K", "L", "M",
                "N", "O", "P", "Q", "R", "S", "T", "U", "V", "W", "X", "Y", "Z">>
LowerChars == <<"a", "b", "c", "d", "e", "f", "g", "h", "i", "j", "k", "l", "m",
                "n", "o", "p", "q", "r", "s", "t", "u", "v", "w", "x", "y", "z">>
DigitChars == {"0", "1", "2", "3", "4", "5", "6", "7", "8", "9"}
SpaceChars == {" ", "\t", "\n", "\r"}

Range(s) == {s[i] : i \in DOMAIN s}

ToLowerChar(c) ==
    IF \E i \in DOMAIN UpperChars : UpperChars[i] = c
    THEN LowerChars[CHOOSE i \in DOMAIN UpperChars : UpperChars[i] = c]
    ELSE c

\* String.prototype.toLowerCase
ToLower(s) == [i \in DOMAIN s |-> ToLowerChar(s[i])]

\* String.prototype.trimStart / trimEnd / trim
RECURSIVE TrimStart(_)
TrimStart(s) ==
    IF s # <<>> /\ Head(s) \in SpaceChars THEN TrimStart(Tail(s)) ELSE s

RECURSIVE TrimEnd(_)
TrimEnd(s) ==
    IF s # <<>> /\ s[Len(s)] \in SpaceChars
    THEN TrimEnd(SubSeq(s, 1, Len(s) - 1))
    ELSE s

Trim(s) == TrimEnd(TrimStart(s))

\* String.prototype.includes for a one-character needle
IncludesChar(s, c) == c \in Range(s)

\* String.prototype.startsWith, at an offset (1-based)
StartsWithAt(s, pre, at) ==
    /\ at + Len(pre) - 1 <= Len(s)
    /\ \A i \in DOMAIN pre : s[at + i - 1] = pre[i]

StartsWith(s, pre) == StartsWithAt(s, pre, 1)

\* s contains sub (LIKE '%sub%', String.prototype.includes)
Contains(s, sub) == \E at \in 1..(Len(s) + 1) : StartsWithAt(s, sub, at)

\* the characters of s from position from on
From(s, from) == SubSeq(s, from, Len(s))

\* length of the run of characters of class cls that starts at position at
RECURSIVE RunLen(_, _, _)
RunLen(s, at, cls) ==
    IF at <= Len(s) /\ s[at] \in cls THEN 1 + RunLen(s, at + 1, cls) ELSE 0

\* String.prototype.split on a one-character separator
RECURSIVE SplitOn(_, _)
SplitOn(s, sep) ==
    IF \E i \in DOMAIN s : s[i] = sep
    THEN LET i == CHOOSE j \in DOMAIN s :
                     s[j] = sep /\ \A m \in 1..(j - 1) : s[m] # sep
         IN <<SubSeq(s, 1, i - 1)>> \o SplitOn(From(s, i + 1), sep)
    ELSE <<s>>

\* yaml.split(/\r?\n/): a "\r" right before the "\n" goes with the separator
SplitLines(s) ==
    LET parts == SplitOn(s, "\n") IN
    [i \in DOMAIN parts |->
        IF i < Len(parts) /\ parts[i] # <<>> /\ parts[i][Len(parts[i])] = "\r"
        THEN SubSeq(parts[i], 1, Len(parts[i]) - 1)
        ELSE parts[i]]

(***************************************************************************)
(* Store: table diaryx_note, a set of rows                                 *)
(***************************************************************************)
NoRow == [absent |-> TRUE]

\* the rows of the table with primary key k = (user_id, id)
RowsAt(tbl, k) == {r \in tbl : r.user_id = k[1] /\ r.id = k[2]}

\* the row with primary key k, or NoRow
RowAt(tbl, k) ==
    IF RowsAt(tbl, k) = {} THEN NoRow ELSE CHOOSE r \in RowsAt(tbl, k) : TRUE

\* The columns an upsert query carries (VALUES ($1, $2, $3, $4, $5, ...))
RowOf(q) ==
    [user_id |-> q.user_id, id |-> q.id, markdown |-> q.markdown,
     source_name |-> q.source_name, last_modified |-> q.last_modified]

\* The row it writes when the store runs it at time clock (updated_at = NOW())
StoredRow(q, clock) ==
    [user_id |-> q.user_id, id |-> q.id, markdown |-> q.markdown,
     source_name |-> q.source_name, last_modified |-> q.last_modified,
     updated_at |-> clock]

\* the columns of a stored row that the caller supplied
Cells(r) ==
    IF r = NoRow THEN NoRow
    ELSE [user_id |-> r.user_id, id |-> r.id, markdown |-> r.markdown,
          source_name |-> r.source_name, last_modified |-> r.last_modified]

\* variants of the WHERE clause: ">" and the comparison turned round
upsertWinsStrict(q, row) == q.last_modified > row.last_modified
upsertWinsReversed(q, row) == row.last_modified >= q.last_modified

\* WHERE EXCLUDED.last_modified >= diaryx_note.last_modified
upsertWins(q, row) == q.last_modified >= row.last_modified

\* variant: ON CONFLICT DO UPDATE without the WHERE clause
unconditionalUpsert(tbl, q, clock) ==
    (tbl \ RowsAt(tbl, <<q.user_id, q.id>>)) \cup {StoredRow(q, clock)}

\* variant: a plain INSERT into a table without the primary key
plainInsert(tbl, q, clock) == tbl \cup {StoredRow(q, clock)}

\* variant: an update that sets markdown and source_name but leaves
\* last_modified as stored
tornUpsert(tbl, q, clock) ==
    LET hit == RowsAt(tbl, <<q.user_id, q.id>>) IN
    IF hit = {} THEN tbl \cup {StoredRow(q, clock)}
    ELSE (tbl \ hit) \cup
             {IF upsertWins(q, r)
              THEN [StoredRow(q, clock) EXCEPT !.last_modified = r.last_modified]
              ELSE r : r \in hit}

\* INSERT ... ON CONFLICT (user_id, id) DO UPDATE SET ... WHERE ...
conditionalUpsert(tbl, q, clock) ==
    LET hit == RowsAt(tbl, <<q.user_id, q.id>>) IN
    IF hit = {} THEN tbl \cup {StoredRow(q, clock)}
    ELSE (tbl \ hit) \cup
             {IF upsertWins(q, r) THEN StoredRow(q, clock) ELSE r : r \in hit}

\* variant: DELETE FROM diaryx_note WHERE id = $2
deleteNoteOfAnyUser(tbl, userId, noteId) == {r \in tbl : r.id # noteId}

\* variant: a delete that empties the row and keeps its lastModified
deleteNoteKeepsTombstone(tbl, userId, noteId) ==
    (tbl \ RowsAt(tbl, <<userId, noteId>>)) \cup
    {[r EXCEPT !.markdown = <<>>] : r \in RowsAt(tbl, <<userId, noteId>>)}

\* DELETE FROM diaryx_note WHERE user_id = $1 AND id = $2
deleteNoteForUser(tbl, userId, noteId) ==
    tbl \ RowsAt(tbl, <<userId, noteId>>)

\* upsertNotesForUser: one query per note, all dispatched at once;
\* a lastModified that is not finite is stamped with Date.now()
\* a store that replaces a non-finite lastModified by the epoch
upsertQueryEpoch(userId, note, clock) ==
    [kind |-> "upsert", user_id |-> userId, id |-> note.id,
     markdown |-> note.markdown,
     source_name |-> IF note.sourceName = Undefined THEN Null ELSE note.sourceName,
     last_modified |-> IF IsFinite(note.lastModified)
                       THEN note.lastModified.num ELSE 0]

upsertQuery(userId, note, clock) ==
    [kind |-> "upsert", user_id |-> userId, id |-> note.id,
     markdown |-> note.markdown,
     source_name |-> IF note.sourceName = Undefined THEN Null ELSE note.sourceName,
     last_modified |-> IF IsFinite(note.lastModified)
                       THEN note.lastModified.num ELSE clock]

upsertNotesForUser(userId, valid, clock) ==
    [i \in DOMAIN valid |-> upsertQuery(userId, valid[i], clock)]

(***************************************************************************)
(* Store: table diaryx_visibility_term                                     *)
(***************************************************************************)
\* Array.from(new Set(xs)): first occurrences, in order
RECURSIVE Dedupe(_)
Dedupe(xs) ==
    IF xs = <<>> THEN <<>>
    ELSE LET front == SubSeq(xs, 1, Len(xs) - 1)
             x == xs[Len(xs)]
         IN IF x \in Range(front) THEN Dedupe(front)
            ELSE Append(Dedupe(front), x)

\* .filter(Boolean) on strings: drops the empty ones
SelectNonEmpty(xs) == SelectSeq(xs, LAMBDA x : x # <<>>)

\* termEntries of updateVisibilityTermsForUser
termEntries(rec) ==
    [i \in DOMAIN rec |->
        [term |-> rec[i].term,
         emails |-> Dedupe(SelectNonEmpty(
                       [j \in DOMAIN rec[i].emails |->
                           ToLower(Trim(rec[i].emails[j]))]))]]

\* variant: the replacement without its DELETE
keepTermsForUser(tbl, userId) == tbl

\* variant: a DELETE without its WHERE clause
deleteTermsOfAllUsers(tbl, userId) == {}

\* DELETE FROM diaryx_visibility_term WHERE user_id = $1
deleteTermsForUser(tbl, userId) == {r \in tbl : r.user_id # userId}

insertQuery(userId, entry) ==
    [kind |-> "insert", user_id |-> userId, term |-> entry.term,
     emails |-> entry.emails]

\* PRIMARY KEY (user_id, term): the INSERT of an existing key fails
insertConflicts(tbl, q) ==
    \E r \in tbl : r.user_id = q.user_id /\ r.term = q.term

insertTerm(tbl, q) ==
    tbl \cup {[user_id |-> q.user_id, term |-> q.term, emails |-> q.emails]}

\* listNotesForUser, as the set of notes the response carries
listNotesForUser(tbl, userId) ==
    {[id |-> r.id, markdown |-> r.markdown, sourceName |-> r.source_name,
      lastModified |-> r.last_modified] : r \in {x \in tbl : x.user_id = userId}}

\* listVisibilityTermsForUser, as the set of (term, emails) it returns
listVisibilityTermsForUser(tbl, userId) ==
    {[term |-> r.term, emails |-> r.emails] : r \in {x \in tbl : x.user_id = userId}}

(***************************************************************************)
(* POST /api/notes: validation of the payload                              *)
(***************************************************************************)
\* Array.isArray(v) ? v : []
ArrayOrEmpty(v) == IF v.type = "array" THEN v.items ELSE <<>>

Arr(items) == [type |-> "array", items |-> items]

\* validNotes: items with a string id and a string markdown, normalised
validNote(note) ==
    [id |-> note.id.str,
     markdown |-> note.markdown.str,
     sourceName |-> IF note.sourceName.type = "string" THEN note.sourceName
                    ELSE IF note.sourceName = Null THEN Null ELSE Undefined,
     lastModified |-> IF note.lastModified.type = "number" THEN note.lastModified
                      ELSE IF note.lastModified \in {Undefined, Null}
                           THEN Num(now)      \* Number(undefined ?? Date.now())
                           ELSE NonFinite]    \* Number("abc")

isValidNote(note) ==
    note.type = "object" /\ note.id.type = "string" /\ note.markdown.type = "string"

\* variant: validation that gives up at the first ill-typed item
validNotesUntilInvalid(payload) ==
    LET notesIn == ArrayOrEmpty(payload.notes)
        ok == {n \in 0..Len(notesIn) : \A i \in 1..n : isValidNote(notesIn[i])}
        kept == SubSeq(notesIn, 1, CHOOSE n \in ok : \A m \in ok : m <= n)
    IN [i \in DOMAIN kept |-> validNote(kept[i])]

validNotes(payload) ==
    LET notesIn == ArrayOrEmpty(payload.notes)
        kept == SelectSeq(notesIn, isValidNote)
    IN [i \in DOMAIN kept |-> validNote(kept[i])]

\* variant: the emails kept as submitted, without trim, toLowerCase and
\* the "@" test
validTermAsGiven(item) ==
    [term |-> Trim(item.term.str),
     emails |-> IF item.emails.type = "array"
                THEN [j \in DOMAIN item.emails.items |->
                         IF item.emails.items[j].type = "string"
                         THEN item.emails.items[j].str ELSE <<>>]
                ELSE <<>>]

\* validTerms: items with a string term; terms trimmed, emails trimmed,
\* lower-cased and kept only when they contain "@"; empty terms dropped
validTerm(item) ==
    [term |-> Trim(item.term.str),
     emails |-> IF item.emails.type = "array"
                THEN SelectSeq(
                        [j \in DOMAIN item.emails.items |->
                            IF item.emails.items[j].type = "string"
                            THEN ToLower(Trim(item.emails.items[j].str))
                            ELSE <<>>],
                        LAMBDA e : IncludesChar(e, "@"))
                ELSE <<>>]

isTermItem(item) == item.type = "object" /\ item.term.type = "string"

validTerms(payload) ==
    LET termsIn == ArrayOrEmpty(payload.visibilityTerms)
        kept == SelectSeq(termsIn, isTermItem)
        mapped == [i \in DOMAIN kept |-> validTerm(kept[i])]
    IN SelectSeq(mapped, LAMBDA item : Len(item.term) > 0)

\* Object.fromEntries: a later entry with the same key replaces the value
\* of the earlier one and keeps its place
RECURSIVE fromEntries(_)
fromEntries(pairs) ==
    IF pairs = <<>> THEN <<>>
    ELSE LET front == fromEntries(SubSeq(pairs, 1, Len(pairs) - 1))
             p == pairs[Len(pairs)]
         IN IF \E i \in DOMAIN front : front[i].term = p.term
            THEN [i \in DOMAIN front |->
                     IF front[i].term = p.term THEN p ELSE front[i]]
            ELSE Append(front, p)

\* variant: the replacement runs whatever validTerms holds
termsAlways(valid) == TRUE

\* if (validTerms.length) await updateVisibilityTermsForUser(...)
termsSubmitted(valid) == Len(valid) > 0

(***************************************************************************)
(* Inputs of the requests                                                  *)
(***************************************************************************)
MdA == <<"A">>
MdB == <<"B">>
EmailA == <<"a", "@", "x">>
EmailB == <<"b", "@", "x">>
TermF == <<"f">>
TermG == <<"g">>

ContentA == [md |-> MdA, src |-> Undefined]
ContentB == [md |-> MdB, src |-> Str(<<"s">>)]
Contents == {ContentA, ContentB}

LastModifiedIn == {Num(t) : t \in Timestamps}

NoteItems(ids, contents) ==
    {[type |-> "object", id |-> Str(i), markdown |-> Str(m.md),
      sourceName |-> m.src, lastModified |-> lm] :
        i \in ids, m \in contents, lm \in LastModifiedIn}

SeqsOfLen(S, lens) == UNION {[1..m -> S] : m \in lens}

TermItem(term, emails) ==
    [type |-> "object", term |-> Str(term),
     emails |-> Arr([j \in DOMAIN emails |-> Str(emails[j])])]

TermsIn ==
    {Undefined,
     Arr(<<>>),
     Arr(<<TermItem(TermF, <<EmailA>>)>>),
     Arr(<<TermItem(<<" ", "f">>, <<<<"A", "@", "x", " ">>, <<"n", "o">>>>),
           TermItem(TermG, <<EmailB, EmailB>>)>>)}

\* sync payloads that carry notes only
NotePayloads(ids) ==
    {[notes |-> Arr(b), visibilityTerms |-> Undefined] :
        b \in SeqsOfLen(NoteItems(ids, Contents), BatchLens)}

(***************************************************************************)
(* History of the writes dispatched to each (user_id, id)                  *)
(***************************************************************************)
NoHist ==
    [top |-> NoRow, tie |-> FALSE, seq |-> TRUE, del |-> FALSE,
     twin |-> FALSE, alt |-> NoRow]

KeyOf(q) == <<q.user_id, q.id>>

\* some upsert of key k is dispatched and not yet applied
pendingOn(k) ==
    \E c \in Clients : \E i \in DOMAIN req[c].pending :
        req[c].pending[i].kind = "upsert" /\ KeyOf(req[c].pending[i]) = k

\* one more write q: top is the write dispatched last among those that carry
\* the greatest timestamp so far, tie tells that several writes carry it
histWrite(h, q) ==
    IF h.top = NoRow \/ q.last_modified > h.top.last_modified
    THEN [h EXCEPT !.top = RowOf(q), !.tie = FALSE]
    ELSE IF q.last_modified = h.top.last_modified
         THEN [h EXCEPT !.top = RowOf(q), !.tie = TRUE]
         ELSE h

RECURSIVE histWrites(_, _)
histWrites(h, qs) ==
    IF qs = <<>> THEN h
    ELSE histWrites(histWrite(h, Head(qs)), Tail(qs))

histDispatch(h, k, qs) ==
    LET mine == SelectSeq(qs, LAMBDA q : KeyOf(q) = k)
        alone == ~pendingOn(k) /\ Len(mine) = 1
        twin == /\ Len(mine) = 2
                /\ mine[1].last_modified = mine[2].last_modified
                /\ ~pendingOn(k) /\ h.seq /\ ~h.del
                /\ (h.top # NoRow => mine[1].last_modified >= h.top.last_modified)
    IN IF mine = <<>> THEN h
       ELSE [histWrites(h, mine) EXCEPT
                !.seq = h.seq /\ alone,
                !.twin = twin,
                !.alt = IF twin THEN RowOf(mine[1]) ELSE NoRow]

histDelete(h, k) ==
    IF pendingOn(k) THEN [h EXCEPT !.del = TRUE, !.twin = FALSE, !.alt = NoRow]
    ELSE NoHist

(***************************************************************************)
(* Requests                                                                *)
(***************************************************************************)
\* solo: no other request was in progress at any time of this one;
\* old: the owner's visibility terms when the request began
IdleReq == [pc |-> "idle", pending |-> <<>>]

\* the queries of a Promise.all that are not yet applied: index -> query
Outstanding(qs) == [i \in DOMAIN qs |-> qs[i]]
Without(f, i) == [j \in DOMAIN f \ {i} |-> f[j]]

Init ==
    /\ notes = {}
    /\ terms = {}
    /\ req = [c \in Clients |-> IdleReq]
    /\ now = 0
    /\ hist = [k \in Keys |-> NoHist]
    /\ last = [op |-> "none"]

\* POST /api/notes up to `await upsertNotesForUser`: the session, the JSON
\* body, validNotes, and the dispatch of one conditional write per note;
\* old is what the history keeps of the owner's terms at this moment
SyncStartFrom(c, u, payload, old) ==
    /\ req[c].pc = "idle"
    /\ LET valid == validNotes(payload)
           qs == upsertNotesForUser(u, valid, now)
           others == {d \in Clients \ {c} : req[d].pc # "idle"}
       IN /\ req' = [d \in Clients |->
                        IF d = c
                        THEN [pc |-> "upsert", user |-> u,
                              termsIn |-> payload.visibilityTerms,
                              nnotes |-> Len(valid),
                              pending |-> Outstanding(qs), failed |-> FALSE,
                              solo |-> others = {},
                              old |-> old]
                        ELSE IF d \in others THEN [req[d] EXCEPT !.solo = FALSE]
                        ELSE req[d]]
          /\ hist' = [k \in Keys |-> histDispatch(hist[k], k, qs)]
    /\ last' = [op |-> "start", client |-> c]
    /\ UNCHANGED <<notes, terms, now>>

NotRecorded == [recorded |-> FALSE]

SyncStart(c, u, payload) == SyncStartFrom(c, u, payload, NotRecorded)

\* the store applies one dispatched conditional write, in any order
StoreUpsert(c, i) ==
    /\ i \in DOMAIN req[c].pending
    /\ req[c].pending[i].kind = "upsert"
    /\ LET q == req[c].pending[i] IN
          /\ notes' = conditionalUpsert(notes, q, now)
          /\ last' = [op |-> "upsert", client |-> c, q |-> q,
                      before |-> RowAt(notes, KeyOf(q))]
    /\ req' = [req EXCEPT ![c].pending = Without(req[c].pending, i)]
    /\ UNCHANGED <<terms, now, hist>>

\* variant: the handler goes on once every write has settled, rejected or not
upsertsSettled(r) == DOMAIN r.pending = {}

\* `await upsertNotesForUser` returns: every write was applied, none rejected
upsertsResolved(r) == ~r.failed /\ DOMAIN r.pending = {}

\* POST /api/notes after the upserts: validTerms and, when there are any,
\* updateVisibilityTermsForUser up to its DELETE; the INSERTs are dispatched
SyncTerms(c) ==
    /\ req[c].pc = "upsert"
    /\ upsertsResolved(req[c])
    /\ LET valid == validTerms([visibilityTerms |-> req[c].termsIn])
           entries == termEntries(fromEntries(valid))
           qs == [i \in DOMAIN entries |-> insertQuery(req[c].user, entries[i])]
       IN IF termsSubmitted(valid)
          THEN /\ terms' = deleteTermsForUser(terms, req[c].user)
               /\ req' = [req EXCEPT ![c].pc = IF qs = <<>> THEN "list" ELSE "insert",
                                     ![c].pending = Outstanding(qs)]
          ELSE /\ terms' = terms
               /\ req' = [req EXCEPT ![c].pc = "list"]
    /\ last' = [op |-> "terms", client |-> c]
    /\ UNCHANGED <<notes, now, hist>>

\* the store applies one dispatched INSERT of a term row, in any order
StoreInsert(c, i) ==
    /\ i \in DOMAIN req[c].pending
    /\ req[c].pending[i].kind = "insert"
    /\ LET q == req[c].pending[i] IN
          IF insertConflicts(terms, q)
          THEN /\ terms' = terms
               /\ req' = [req EXCEPT ![c].pending = Without(req[c].pending, i),
                                     ![c].failed = TRUE]
          ELSE /\ terms' = insertTerm(terms, q)
               /\ req' = [req EXCEPT ![c].pending = Without(req[c].pending, i)]
    /\ last' = [op |-> "insert", client |-> c]
    /\ UNCHANGED <<notes, now, hist>>

\* await Promise.all(insertPromises) returns, or throws at the first failure
SyncInserted(c) ==
    /\ req[c].pc = "insert"
    /\ \/ /\ ~req[c].failed
          /\ DOMAIN req[c].pending = {}
          /\ req' = [req EXCEPT ![c].pc = "list"]
          /\ last' = [op |-> "inserted", client |-> c]
       \/ /\ req[c].failed
          /\ req' = [req EXCEPT ![c].pc = "responded"]
          /\ last' = [op |-> "respond", client |-> c, status |-> 500,
                      user |-> req[c].user, termsIn |-> req[c].termsIn,
                      nnotes |-> req[c].nnotes, solo |-> req[c].solo,
                old |-> req[c].old]
    /\ UNCHANGED <<notes, terms, now, hist>>

\* listNotesForUser and listVisibilityTermsForUser, then the 200 response
SyncRespond(c) ==
    /\ req[c].pc = "list"
    /\ req' = [req EXCEPT ![c] = IdleReq]
    /\ last' = [op |-> "respond", client |-> c, status |-> 200,
                user |-> req[c].user, termsIn |-> req[c].termsIn,
                nnotes |-> req[c].nnotes, solo |-> req[c].solo,
                old |-> req[c].old,
                notes |-> listNotesForUser(notes, req[c].user),
                visibilityTerms |-> listVisibilityTermsForUser(terms, req[c].user)]
    /\ UNCHANGED <<notes, terms, now, hist>>

\* a request that answered 500 is over once its queries have drained
SyncDrained(c) ==
    /\ req[c].pc = "responded"
    /\ DOMAIN req[c].pending = {}
    /\ req' = [req EXCEPT ![c] = IdleReq]
    /\ last' = [op |-> "drained", client |-> c]
    /\ UNCHANGED <<notes, terms, now, hist>>

\* DELETE /api/notes/:id for session user u; old is what the history keeps
\* of this moment
DeleteNoteFrom(u, id, old) ==
    /\ notes' = deleteNoteForUser(notes, u, id)
    /\ hist' = [hist EXCEPT ![<<u, id>>] = histDelete(hist[<<u, id>>], <<u, id>>)]
    /\ last' = [op |-> "delete", key |-> <<u, id>>, old |-> old]
    /\ UNCHANGED <<terms, req, now>>

DeleteNote(u, id) == DeleteNoteFrom(u, id, NotRecorded)

\* time passes
Tick ==
    /\ now < MaxTs
    /\ now' = now + 1
    /\ last' = [op |-> "tick"]
    /\ UNCHANGED <<notes, terms, req, hist>>

\* Sync calls of one user on one note id, overlapping in two clients
Next ==
    \/ \E c \in Clients, p \in NotePayloads({"n1"}) : SyncStart(c, "u1", p)
    \/ \E c \in Clients : \E i \in DOMAIN req[c].pending : StoreUpsert(c, i)
    \/ \E c \in Clients : SyncTerms(c)
    \/ \E c \in Clients : SyncRespond(c)
    \/ DeleteNote("u1", "n1")

Spec == Init /\ [][Next]_vars

\* sync payloads with at most one note and any of the term lists
TermPayloads(ids) ==
    {[notes |-> Arr(b), visibilityTerms |-> t] :
        b \in SeqsOfLen(NoteItems(ids, {ContentA}), {0, 1}), t \in TermsIn}

\* Sync calls of one user that carry visibility terms, in two clients
NextTerms ==
    \/ \E c \in Clients, p \in TermPayloads({"n1"}) : SyncStart(c, "u1", p)
    \/ \E c \in Clients : \E i \in DOMAIN req[c].pending : StoreUpsert(c, i)
    \/ \E c \in Clients : SyncTerms(c)
    \/ \E c \in Clients : \E i \in DOMAIN req[c].pending : StoreInsert(c, i)
    \/ \E c \in Clients : SyncInserted(c)
    \/ \E c \in Clients : SyncRespond(c)
    \/ \E c \in Clients : SyncDrained(c)

SpecTerms == Init /\ [][NextTerms]_vars

(***************************************************************************)
(* Failures of the store and of the process                                *)
(***************************************************************************)
\* the store rejects a dispatched query (connection lost, statement refused):
\* the tables stay as they are and the query's promise is rejected
StoreRejects(c, i) ==
    /\ i \in DOMAIN req[c].pending
    /\ req' = [req EXCEPT ![c].pending = Without(req[c].pending, i),
                          ![c].failed = TRUE]
    /\ last' = [op |-> "reject", client |-> c, q |-> req[c].pending[i]]
    /\ UNCHANGED <<notes, terms, now, hist>>

\* await Promise.all(queries) of upsertNotesForUser throws at the first
\* rejected write: the handler's catch answers 500
SyncUpsertFailed(c) ==
    /\ req[c].pc = "upsert"
    /\ req[c].failed
    /\ req' = [req EXCEPT ![c].pc = "responded"]
    /\ last' = [op |-> "respond", client |-> c, status |-> 500,
                user |-> req[c].user, termsIn |-> req[c].termsIn,
                nnotes |-> req[c].nnotes, solo |-> req[c].solo,
                old |-> req[c].old]
    /\ UNCHANGED <<notes, terms, now, hist>>

\* the process stops: the request is gone and the queries that the store
\* has not yet run are never run
Crash(c) ==
    /\ req[c].pc # "idle"
    /\ req' = [req EXCEPT ![c] = IdleReq]
    /\ last' = [op |-> "crash", client |-> c, old |-> req[c].old]
    /\ UNCHANGED <<notes, terms, now, hist>>

FailTermsIn == TermsIn \cup {Arr(<<TermItem(TermG, <<EmailA>>)>>)}

\* sync payloads that carry visibility terms only
TermOnlyPayloads ==
    {[notes |-> Arr(<<>>), visibilityTerms |-> t] : t \in FailTermsIn}

\* what the history keeps of the moment a request begins: the owner's terms
RecordedTerms(u) ==
    [recorded |-> TRUE, terms |-> listVisibilityTermsForUser(terms, u)]

\* Sync calls of one user that replace the visibility terms, one after the
\* other, with a store that may reject a query
NextTermFail ==
    \/ \E p \in TermOnlyPayloads : SyncStartFrom("c1", "u1", p, RecordedTerms("u1"))
    \/ SyncTerms("c1")
    \/ \E i \in DOMAIN req["c1"].pending : StoreInsert("c1", i)
    \/ \E i \in DOMAIN req["c1"].pending : StoreRejects("c1", i)
    \/ SyncInserted("c1")
    \/ SyncRespond("c1")
    \/ SyncDrained("c1")

SpecTermFail == Init /\ [][NextTermFail]_vars

\* Sync calls of one user that replace the visibility terms, overlapping in
\* two clients, with a store that rejects only what the tables forbid
NextRace ==
    \/ \E c \in Clients, p \in TermOnlyPayloads : SyncStart(c, "u1", p)
    \/ \E c \in Clients : SyncTerms(c)
    \/ \E c \in Clients : \E i \in DOMAIN req[c].pending : StoreInsert(c, i)
    \/ \E c \in Clients : SyncInserted(c)
    \/ \E c \in Clients : SyncRespond(c)
    \/ \E c \in Clients : SyncDrained(c)

SpecRace == Init /\ [][NextRace]_vars

\* sync payloads with notes of two ids: an old and a new version of each
FailNoteItems ==
    {[type |-> "object", id |-> Str(i), markdown |-> Str(v.md),
      sourceName |-> v.src, lastModified |-> Num(v.at)] :
        i \in {"n1", "n2"},
        v \in {[md |-> MdA, src |-> Undefined, at |-> 0],
               [md |-> MdB, src |-> Str(<<"s">>), at |-> MaxTs]}}
FailPayloads ==
    {[notes |-> Arr(b), visibilityTerms |-> Undefined] :
        b \in SeqsOfLen(FailNoteItems, BatchLens)}

\* what the history keeps of the moment a request begins: the note rows and
\* the writes of the batch
RecordedNotes(u, payload) ==
    [recorded |-> TRUE, notes |-> notes,
     batch |-> upsertNotesForUser(u, validNotes(payload), now)]

\* Sync calls of one user, one after the other, with a store that may
\* reject a write and a process that may stop
NextFail ==
    \/ \E p \in FailPayloads : SyncStartFrom("c1", "u1", p, RecordedNotes("u1", p))
    \/ \E i \in DOMAIN req["c1"].pending : StoreUpsert("c1", i)
    \/ \E i \in DOMAIN req["c1"].pending : StoreRejects("c1", i)
    \/ SyncUpsertFailed("c1")
    \/ SyncTerms("c1")
    \/ SyncRespond("c1")
    \/ SyncDrained("c1")
    \/ Crash("c1")

SpecFail == Init /\ [][NextFail]_vars

\* sync payloads of at most one note, or of one visibility term
FramePayloads(ids) ==
    {[notes |-> Arr(b), visibilityTerms |-> Undefined] :
        b \in SeqsOfLen({n \in FailNoteItems : n.id.str \in ids}, {0, 1})}
    \cup {[notes |-> Arr(<<>>), visibilityTerms |-> Arr(<<TermItem(TermF, <<EmailA>>)>>)]}

\* Sync calls and deletes of two users who both use the id n1, one after
\* the other
NextFrame ==
    \/ \E p \in FramePayloads({"n1", "n2"}) : SyncStart("c1", "u1", p)
    \/ \E p \in FramePayloads({"n1"}) : SyncStart("c1", "u2", p)
    \/ \E i \in DOMAIN req["c1"].pending : StoreUpsert("c1", i)
    \/ SyncTerms("c1")
    \/ \E i \in DOMAIN req["c1"].pending : StoreInsert("c1", i)
    \/ SyncInserted("c1")
    \/ SyncRespond("c1")
    \/ \E u \in Users : DeleteNote(u, "n1")

SpecFrame == Init /\ [][NextFrame]_vars

(***************************************************************************)
(* Sync calls and deletes of one user on one note id, one client           *)
(***************************************************************************)
\* what the history keeps of a delete: the row it finds
RecordedRow(k) == [recorded |-> TRUE, removed |-> RowAt(notes, k)]

\* what the history keeps of the moment a request begins: the row the
\* delete just before it removed, if there was one
RecordedDelete ==
    IF last.op = "delete" THEN last.old ELSE NotRecorded

NextTomb ==
    \/ \E p \in NotePayloads({"n1"}) : SyncStartFrom("c1", "u1", p, RecordedDelete)
    \/ \E i \in DOMAIN req["c1"].pending : StoreUpsert("c1", i)
    \/ SyncTerms("c1")
    \/ SyncRespond("c1")
    \/ DeleteNoteFrom("u1", "n1", RecordedRow(<<"u1", "n1">>))

SpecTomb == Init /\ [][NextTomb]_vars

(***************************************************************************)
(* Sync calls whose notes lack a usable lastModified, while time passes    *)
(***************************************************************************)
\* lastModified as a client may send it: a number, nothing, null, a string
\* that is no number (Number("x") is NaN), a number beyond the double range
\* (JSON.parse("1e999") is Infinity)
StampLastModifiedIn ==
    LastModifiedIn \cup {Undefined, Null, Str(<<"x">>), NonFinite}
StampNoteItems ==
    {[type |-> "object", id |-> Str("n1"), markdown |-> Str(md),
      sourceName |-> Undefined, lastModified |-> lm] :
        md \in {MdA, MdB}, lm \in StampLastModifiedIn}
StampPayloads ==
    {[notes |-> Arr(b), visibilityTerms |-> Undefined] :
        b \in SeqsOfLen(StampNoteItems, {1, 2})}

\* what the history keeps of the moment a request begins: the time, and the
\* lastModified of each note as it was sent
RecordedStamps(payload) ==
    [recorded |-> TRUE, at |-> now,
     sent |-> [i \in DOMAIN payload.notes.items |->
                  payload.notes.items[i].lastModified]]

NextStamp ==
    \/ \E p \in StampPayloads : SyncStartFrom("c1", "u1", p, RecordedStamps(p))
    \/ \E i \in DOMAIN req["c1"].pending : StoreUpsert("c1", i)
    \/ SyncTerms("c1")
    \/ SyncRespond("c1")
    \/ Tick

SpecStamp == Init /\ [][NextStamp]_vars

(***************************************************************************)
(* Frontmatter splitter: extractFrontmatter                                *)
(***************************************************************************)
Fence == <<"-", "-", "-">>
NewlineFence == <<"\n", "-", "-", "-">>

SetMax(S) == CHOOSE x \in S : \A y \in S : y <= x
SetMin(S) == CHOOSE x \in S : \A y \in S : x <= y

\* /^---\s*\n/: the positions of a "\n" that can end the opening fence
OpeningEnds(s) == {p \in 4..(3 + RunLen(s, 4, SpaceChars)) : s[p] = "\n"}

\* /([\s\S]*?)\n---/ after an opening that ends at p: the positions e where
\* the captured text s[p+1..e] can end
ClosingAfter(s, p) == {e \in p..Len(s) : StartsWithAt(s, NewlineFence, e + 1)}

\* variant: an opening fence without a closing one takes the rest as yaml
extractFrontmatterOpenEnded(markdown) ==
    LET opens == {p \in OpeningEnds(markdown) : ClosingAfter(markdown, p) # {}}
    IN IF ~StartsWith(markdown, Fence) \/ OpeningEnds(markdown) = {}
       THEN [yaml |-> Undefined, body |-> markdown]
       ELSE IF opens = {}
       THEN [yaml |-> Str(From(markdown, SetMin(OpeningEnds(markdown)) + 1)),
             body |-> <<>>]
       ELSE LET p == SetMax(opens)
                e == SetMin(ClosingAfter(markdown, p))
                rest == e + 5
                stop == rest + RunLen(markdown, rest, SpaceChars)
            IN [yaml |-> Str(SubSeq(markdown, p + 1, e)),
                body |-> From(markdown, stop)]

\* markdown.match(/^---\s*\n([\s\S]*?)\n---\s*\n?/): the greedy \s* takes the
\* last opening that still finds a closing fence, the lazy group the first
\* closing fence after it, and the final \s* all the white space that follows
extractFrontmatter(markdown) ==
    LET opens == {p \in OpeningEnds(markdown) : ClosingAfter(markdown, p) # {}}
    IN IF ~StartsWith(markdown, Fence) \/ opens = {}
       THEN [yaml |-> Undefined, body |-> markdown]
       ELSE LET p == SetMax(opens)
                e == SetMin(ClosingAfter(markdown, p))
                rest == e + 5
                stop == rest + RunLen(markdown, rest, SpaceChars)
            IN [yaml |-> Str(SubSeq(markdown, p + 1, e)),
                body |-> From(markdown, stop)]

(***************************************************************************)
(* Metadata subset parser: parseInlineArray, parseBlockArray,              *)
(* parseYamlSubset.  Lines are numbered from 1.                            *)
(***************************************************************************)
KeyChars == Range(UpperChars) \cup Range(LowerChars) \cup DigitChars \cup {"_", "-"}
LineBreaks == {"\n", "\r"}

\* "." of a regular expression matches no line break
NoLineBreak(s) == Range(s) \cap LineBreaks = {}

\* length of the run of characters outside excl that starts at position at
RECURSIVE RunLenNot(_, _, _)
RunLenNot(s, at, excl) ==
    IF at <= Len(s) /\ s[at] \notin excl THEN 1 + RunLenNot(s, at + 1, excl) ELSE 0

\* variant: the parts of the inline array are not trimmed
parseInlineArrayUntrimmed(value) ==
    LET t == Trim(value)
        a == IF t # <<>> /\ t[1] = "[" THEN Tail(t) ELSE t
        inner == IF a # <<>> /\ a[Len(a)] = "]"
                 THEN SubSeq(a, 1, Len(a) - 1) ELSE a
        parts == SplitOn(inner, ",")
    IN IF Trim(inner) = <<>> THEN <<>>
       ELSE SelectNonEmpty(parts)

parseInlineArray(value) ==
    LET t == Trim(value)
        a == IF t # <<>> /\ t[1] = "[" THEN Tail(t) ELSE t           \* replace(/^\[/, "")
        inner == IF a # <<>> /\ a[Len(a)] = "]"
                 THEN SubSeq(a, 1, Len(a) - 1) ELSE a                \* replace(/\]$/, "")
        parts == SplitOn(inner, ",")
    IN IF Trim(inner) = <<>> THEN <<>>
       ELSE SelectNonEmpty([i \in DOMAIN parts |-> Trim(parts[i])])

\* line.match(/^ {indent}-\s*(.*)$/)
blockItem(line, indentSpaces) ==
    LET dash == indentSpaces + 1
        rest == From(line, dash + 1 + RunLen(line, dash + 1, SpaceChars))
    IN IF /\ Len(line) >= dash
          /\ \A i \in 1..indentSpaces : line[i] = " "
          /\ line[dash] = "-"
          /\ NoLineBreak(rest)
       THEN [ok |-> TRUE, item |-> Trim(rest)]
       ELSE [ok |-> FALSE]

\* items of the block list that starts at line startIndex; end is the last
\* line it consumed
RECURSIVE parseBlockArray(_, _, _)
parseBlockArray(lines, startIndex, indentSpaces) ==
    IF startIndex > Len(lines) \/ ~blockItem(lines[startIndex], indentSpaces).ok
    THEN [items |-> <<>>, end |-> startIndex - 1]
    ELSE LET m == blockItem(lines[startIndex], indentSpaces)
             more == parseBlockArray(lines, startIndex + 1, indentSpaces)
         IN [items |-> IF m.item # <<>> THEN <<m.item>> \o more.items
                       ELSE more.items,
             end |-> more.end]

\* line.match(/^([A-Za-z0-9_\-]+)\s*:\s*(.*)$/)
topKey(line) ==
    LET k == RunLen(line, 1, KeyChars)
        colon == k + 1 + RunLen(line, k + 1, SpaceChars)
        rest == From(line, colon + 1 + RunLen(line, colon + 1, SpaceChars))
    IN IF k >= 1 /\ colon <= Len(line) /\ line[colon] = ":" /\ NoLineBreak(rest)
       THEN [ok |-> TRUE, key |-> SubSeq(line, 1, k), rest |-> rest]
       ELSE [ok |-> FALSE]

\* /^[A-Za-z0-9_\-]+\s*:/.test(sub)
isTopKeyLine(sub) ==
    LET k == RunLen(sub, 1, KeyChars)
        colon == k + 1 + RunLen(sub, k + 1, SpaceChars)
    IN k >= 1 /\ colon <= Len(sub) /\ sub[colon] = ":"

\* sub.match(/^\s{2}([^:\r\n]+)\s*:\s*(.*)$/)
subMapping(sub) ==
    LET t == RunLenNot(sub, 3, {":", "\r", "\n"})
        colon == 3 + t + RunLen(sub, 3 + t, SpaceChars)
        rest == From(sub, colon + 1 + RunLen(sub, colon + 1, SpaceChars))
    IN IF /\ Len(sub) >= 2 /\ sub[1] \in SpaceChars /\ sub[2] \in SpaceChars
          /\ t >= 1 /\ colon <= Len(sub) /\ sub[colon] = ":" /\ NoLineBreak(rest)
       THEN [ok |-> TRUE, term |-> SubSeq(sub, 3, 2 + t), rest |-> rest]
       ELSE [ok |-> FALSE]

\* JavaScript objects keep their keys in insertion order: a sequence of
\* [key, val] pairs, no key twice
NoObject == <<>>
HasKey(obj, key) == \E i \in DOMAIN obj : obj[i].key = key
Get(obj, key) ==
    IF HasKey(obj, key)
    THEN obj[CHOOSE i \in DOMAIN obj : obj[i].key = key].val
    ELSE Undefined

\* obj[key] = val: an existing key keeps its place and takes the new value
Put(obj, key, val) ==
    IF HasKey(obj, key)
    THEN [i \in DOMAIN obj |-> IF obj[i].key = key THEN [key |-> key, val |-> val]
                               ELSE obj[i]]
    ELSE Append(obj, [key |-> key, val |-> val])

Strs(items) == [type |-> "array", items |-> [i \in DOMAIN items |-> Str(items[i])]]

KeyVisibility == <<"v", "i", "s", "i", "b", "i", "l", "i", "t", "y">>
KeyVisibilityEmails == <<"v", "i", "s", "i", "b", "i", "l", "i", "t", "y", "_", "e", "m", "a", "i", "l", "s">>

\* variant: the inner loop takes the line it stops at
RECURSIVE emailsScanConsuming(_, _, _, _)
emailsScanConsuming(lines, j, map, i) ==
    IF j > Len(lines) THEN [map |-> map, i |-> i]
    ELSE LET sub == lines[j]
             mm == subMapping(sub)
             term == Trim(mm.term)
             after == Trim(mm.rest)
             blk == parseBlockArray(lines, j + 1, 4)
         IN IF isTopKeyLine(sub) \/ StartsWith(sub, Fence)
            THEN [map |-> map, i |-> j]
            ELSE IF ~mm.ok \/ term = <<>>
            THEN emailsScanConsuming(lines, j + 1, map, i)
            ELSE IF StartsWith(after, <<"[">>)
            THEN emailsScanConsuming(lines, j + 1,
                                     Put(map, term, Strs(parseInlineArray(after))), j)
            ELSE IF after = <<>>
            THEN emailsScanConsuming(lines, blk.end + 1,
                                     Put(map, term, Strs(blk.items)), blk.end)
            ELSE emailsScanConsuming(lines, j + 1, Put(map, term, Strs(<<after>>)), j)

\* the inner loop of parseYamlSubset over the lines after "visibility_emails:",
\* from line j on; i is the outer loop's index as the inner loop last set it
RECURSIVE emailsScan(_, _, _, _)
emailsScan(lines, j, map, i) ==
    IF j > Len(lines) THEN [map |-> map, i |-> i]
    ELSE LET sub == lines[j]
             mm == subMapping(sub)
             term == Trim(mm.term)
             after == Trim(mm.rest)
             blk == parseBlockArray(lines, j + 1, 4)
         IN IF isTopKeyLine(sub) \/ StartsWith(sub, Fence)
            THEN [map |-> map, i |-> j - 1]
            ELSE IF ~mm.ok \/ term = <<>>
            THEN emailsScan(lines, j + 1, map, i)
            ELSE IF StartsWith(after, <<"[">>)
            THEN emailsScan(lines, j + 1, Put(map, term, Strs(parseInlineArray(after))), j)
            ELSE IF after = <<>>
            THEN emailsScan(lines, blk.end + 1, Put(map, term, Strs(blk.items)), blk.end)
            ELSE emailsScan(lines, j + 1, Put(map, term, Strs(<<after>>)), j)

\* the outer loop of parseYamlSubset from line i on
RECURSIVE yamlScan(_, _, _)
yamlScan(lines, i, result) ==
    IF i > Len(lines) THEN result
    ELSE LET line == lines[i]
             top == topKey(line)
             blk == parseBlockArray(lines, i + 1, 2)
             em == emailsScan(lines, i + 1, NoObject, i)
         IN IF Trim(line) = <<>> \/ StartsWith(Trim(line), <<"#">>) \/ ~top.ok
            THEN yamlScan(lines, i + 1, result)
            ELSE IF top.key = KeyVisibility
            THEN IF top.rest = <<>>
                 THEN yamlScan(lines, blk.end + 1,
                               IF blk.items # <<>>
                               THEN [result EXCEPT !.visibility = Strs(blk.items)]
                               ELSE result)
                 ELSE IF StartsWith(Trim(top.rest), <<"[">>)
                 THEN yamlScan(lines, i + 1,
                               [result EXCEPT
                                   !.visibility = Strs(parseInlineArray(top.rest))])
                 ELSE yamlScan(lines, i + 1,
                               IF Trim(top.rest) # <<>>
                               THEN [result EXCEPT !.visibility = Str(Trim(top.rest))]
                               ELSE result)
            ELSE IF top.key = KeyVisibilityEmails
            THEN yamlScan(lines, em.i + 1,
                          IF em.map # NoObject
                          THEN [result EXCEPT !.visibility_emails =
                                   [type |-> "object", entries |-> em.map]]
                          ELSE result)
            ELSE yamlScan(lines, i + 1, result)

NoSubset == [visibility |-> Undefined, visibility_emails |-> Undefined]

\* the lines the inner loop, from line j on, takes a term or an item from
RECURSIVE emailsUsed(_, _)
emailsUsed(lines, j) ==
    IF j > Len(lines) THEN {}
    ELSE LET sub == lines[j]
             mm == subMapping(sub)
             blk == parseBlockArray(lines, j + 1, 4)
         IN IF isTopKeyLine(sub) \/ StartsWith(sub, Fence) THEN {}
            ELSE IF ~mm.ok \/ Trim(mm.term) = <<>> THEN emailsUsed(lines, j + 1)
            ELSE IF Trim(mm.rest) = <<>>
            THEN (j..blk.end) \cup emailsUsed(lines, blk.end + 1)
            ELSE {j} \cup emailsUsed(lines, j + 1)

\* the lines the outer loop, from line i on, reads for visibility (vis) and
\* for visibility_emails (em)
RECURSIVE yamlUsed(_, _)
yamlUsed(lines, i) ==
    IF i > Len(lines) THEN [vis |-> {}, em |-> {}]
    ELSE LET line == lines[i]
             top == topKey(line)
             blk == parseBlockArray(lines, i + 1, 2)
             em == emailsScan(lines, i + 1, NoObject, i)
         IN IF Trim(line) = <<>> \/ StartsWith(Trim(line), <<"#">>) \/ ~top.ok
            THEN yamlUsed(lines, i + 1)
            ELSE IF top.key = KeyVisibility
            THEN IF top.rest = <<>>
                 THEN [yamlUsed(lines, blk.end + 1) EXCEPT !.vis = @ \cup (i..blk.end)]
                 ELSE [yamlUsed(lines, i + 1) EXCEPT !.vis = @ \cup {i}]
            ELSE IF top.key = KeyVisibilityEmails
            THEN [yamlUsed(lines, em.i + 1) EXCEPT
                     !.em = @ \cup {i} \cup emailsUsed(lines, i + 1)]
            ELSE yamlUsed(lines, i + 1)

parseYamlSubset(yaml) ==
    IF yaml = Undefined \/ yaml.str = <<>> THEN NoSubset
    ELSE yamlScan(SplitLines(yaml.str), 1, NoSubset)

\* what parseDiaryxString derives from the text
parsedText(fileContents) ==
    LET fm == extractFrontmatter(fileContents)
        subset == parseYamlSubset(fm.yaml)
    IN [body |-> TrimStart(fm.body),
        metadata |-> [visibility |-> subset.visibility,
                      visibility_emails |-> subset.visibility_emails],
        frontmatter |-> IF fm.yaml # Undefined /\ Trim(fm.yaml.str) # <<>>
                        THEN fm.yaml ELSE Undefined]

\* parseDiaryxString with options.id; the caller overwrites lastModified and
\* sourceName
parseDiaryxString(fileContents, id) ==
    LET p == parsedText(fileContents)
    IN [id |-> id, body |-> p.body, metadata |-> p.metadata,
        frontmatter |-> p.frontmatter]

(***************************************************************************)
(* The splitter and the parser on documents made of a few pieces           *)
(***************************************************************************)
MaxPieces == 6
SplitPieces == {Fence, <<"\n">>, <<"a">>, <<" ">>}

RECURSIVE DocsOfPieces(_)
DocsOfPieces(n) ==
    IF n = 0 THEN {<<>>}
    ELSE DocsOfPieces(n - 1) \cup
         {d \o p : d \in DocsOfPieces(n - 1), p \in SplitPieces}

InitSplit ==
    /\ notes = {}
    /\ terms = {}
    /\ req = [c \in Clients |-> IdleReq]
    /\ now = 0
    /\ hist = [k \in Keys |-> NoHist]
    /\ \E d \in DocsOfPieces(MaxPieces) : last = [op |-> "doc", doc |-> d]

\* extractFrontmatter(doc), then parseYamlSubset of its yaml
Split ==
    /\ last.op = "doc"
    /\ LET fm == extractFrontmatter(last.doc)
       IN last' = [op |-> "split", doc |-> last.doc, yaml |-> fm.yaml,
                   body |-> fm.body, subset |-> parseYamlSubset(fm.yaml)]
    /\ UNCHANGED <<notes, terms, req, now, hist>>

SpecSplit == InitSplit /\ [][Split]_vars

(***************************************************************************)
(* The parser on the inline form and on the block form of one metadata     *)
(***************************************************************************)
RECURSIVE Join(_, _)
Join(items, sep) ==
    IF items = <<>> THEN <<>>
    ELSE IF Len(items) = 1 THEN items[1]
    ELSE items[1] \o sep \o Join(Tail(items), sep)

RECURSIVE Flatten(_)
Flatten(seqs) == IF seqs = <<>> THEN <<>> ELSE seqs[1] \o Flatten(Tail(seqs))

\* [a, b]
InlineList(items) == <<"[">> \o Join(items, <<",", " ">>) \o <<"]">>

\* visibility: [a, b] and, under visibility_emails:, lines "  term: [x, y]"
InlineForm(vis, map) ==
    <<KeyVisibility \o <<":", " ">> \o InlineList(vis),
      KeyVisibilityEmails \o <<":">>>> \o
    [k \in DOMAIN map |->
        <<" ", " ">> \o map[k].key \o <<":", " ">> \o InlineList(map[k].val)]

\* visibility: followed by "  - a" lines and, under visibility_emails:, lines
\* "  term:" followed by "    - x" lines
BlockForm(vis, map) ==
    <<KeyVisibility \o <<":">>>> \o
    [k \in DOMAIN vis |-> <<" ", " ", "-", " ">> \o vis[k]] \o
    <<KeyVisibilityEmails \o <<":">>>> \o
    Flatten([k \in DOMAIN map |->
                <<<<" ", " ">> \o map[k].key \o <<":">>>> \o
                [e \in DOMAIN map[k].val |->
                    <<" ", " ", " ", " ", "-", " ">> \o map[k].val[e]]])

\* terms and emails of one or two characters
FormChars == {"f", " ", ":", "-", "#"}
FormStrings == {<<c>> : c \in FormChars} \cup {<<c, d>> : c, d \in FormChars}
FormLists == SeqsOfLen(FormStrings, {0, 1, 2})
FormInputs ==
    {[op |-> "forms", vis |-> v, map |-> <<>>] : v \in FormLists}
    \cup {[op |-> "forms", vis |-> <<TermF>>,
           map |-> <<[key |-> k, val |-> e]>>] :
              k \in FormStrings, e \in FormLists}
    \cup {[op |-> "forms", vis |-> <<TermF, TermG>>,
           map |-> <<[key |-> k1, val |-> <<EmailA>>],
                     [key |-> k2, val |-> <<EmailB, EmailA>>]>>] :
              k1, k2 \in {TermF, TermG, <<"f", ":">>}}

InitForms ==
    /\ notes = {}
    /\ terms = {}
    /\ req = [c \in Clients |-> IdleReq]
    /\ now = 0
    /\ hist = [k \in Keys |-> NoHist]
    /\ last \in FormInputs

\* parseYamlSubset on both forms
ParseForms ==
    /\ last.op = "forms"
    /\ last' = [op |-> "parsed", vis |-> last.vis, map |-> last.map,
                inline |-> parseYamlSubset(
                               Str(Join(InlineForm(last.vis, last.map), <<"\n">>))),
                block |-> parseYamlSubset(
                              Str(Join(BlockForm(last.vis, last.map), <<"\n">>)))]
    /\ UNCHANGED <<notes, terms, req, now, hist>>

SpecForms == InitForms /\ [][ParseForms]_vars

(***************************************************************************)
(* The parser on a metadata block and on the block with its two entries    *)
(* swapped                                                                 *)
(***************************************************************************)
LineVisibility == KeyVisibility \o <<":">>
LineVisibilityEmails == KeyVisibilityEmails \o <<":">>
ItemF == <<" ", " ", "-", " ", "f">>
ItemG == <<" ", " ", "-", " ", "g">>
MapF == <<" ", " ", "f", ":", " ", "[", "a", "@", "x", "]">>
MapG == <<" ", " ", "g", ":", " ", "[", "b", "@", "x", "]">>
MapFBlock == <<" ", " ", "f", ":">>
Item4A == <<" ", " ", " ", " ", "-", " ", "a", "@", "x">>

\* a visibility entry: the key line and the lines that go with it
VisEntries ==
    {<<LineVisibility \o <<" ", "[", "f", ",", " ", "g", "]">>>>,
     <<LineVisibility \o <<" ", "f">>>>,
     <<LineVisibility, ItemF, ItemG>>,
     <<LineVisibility>>,
     <<LineVisibility, ItemF, MapG>>,
     <<LineVisibility, ItemF, <<>>, ItemG>>}

\* a visibility_emails entry: the key line and the lines that go with it
EmailEntries ==
    {<<LineVisibilityEmails, MapF>>,
     <<LineVisibilityEmails, MapFBlock, Item4A, MapG>>,
     <<LineVisibilityEmails>>,
     <<LineVisibilityEmails, MapFBlock, ItemG>>,
     <<LineVisibilityEmails, <<>>, MapF, <<"#", " ", "c">>, MapG>>,
     <<LineVisibilityEmails, MapF, ItemG>>,
     <<LineVisibilityEmails \o <<" ", "[", "f", "]">>, MapFBlock, Item4A, Item4A>>}

\* entries of other keys, before, between and after the two
OtherEntries == {<<>>, <<<<"t", ":", " ", "x">>>>, <<<<"t", ":">>, ItemF>>}

InitSwap ==
    /\ notes = {}
    /\ terms = {}
    /\ req = [c \in Clients |-> IdleReq]
    /\ now = 0
    /\ hist = [k \in Keys |-> NoHist]
    /\ \E v \in VisEntries, e \in EmailEntries, a, b, c \in OtherEntries :
          last = [op |-> "entries", v |-> v, e |-> e,
                  first |-> a \o v \o b \o e \o c,
                  swapped |-> a \o e \o b \o v \o c]

\* parseYamlSubset on both orders
ParseSwap ==
    /\ last.op = "entries"
    /\ last' = [op |-> "swap", v |-> last.v, e |-> last.e,
                first |-> last.first, swapped |-> last.swapped,
                parsedFirst |-> parseYamlSubset(Str(Join(last.first, <<"\n">>))),
                parsedSwapped |-> parseYamlSubset(Str(Join(last.swapped, <<"\n">>))),
                usedFirst |-> yamlUsed(last.first, 1),
                usedSwapped |-> yamlUsed(last.swapped, 1)]
    /\ UNCHANGED <<notes, terms, req, now, hist>>

SpecSwap == InitSwap /\ [][ParseSwap]_vars

(***************************************************************************)
(* parseYamlSubset, one iteration of its loops at a time                   *)
(***************************************************************************)
\* result.visibility_emails = map, if Object.keys(map).length
withEmails(result, map) ==
    IF map # NoObject
    THEN [result EXCEPT !.visibility_emails = [type |-> "object", entries |-> map]]
    ELSE result

\* one iteration of the outer loop at line st.i, with the i++ that ends it;
\* at visibility_emails the inner loop begins at j = i + 1
outerIter(st) ==
    LET lines == st.lines
        i == st.i
        line == lines[i]
        top == topKey(line)
        blk == parseBlockArray(lines, i + 1, 2)
    IN IF Trim(line) = <<>> \/ StartsWith(Trim(line), <<"#">>) \/ ~top.ok
       THEN [st EXCEPT !.i = i + 1]
       ELSE IF top.key = KeyVisibility
       THEN IF top.rest = <<>>
            THEN [st EXCEPT !.i = blk.end + 1,
                            !.result = IF blk.items # <<>>
                                       THEN [@ EXCEPT !.visibility = Strs(blk.items)]
                                       ELSE @]
            ELSE IF StartsWith(Trim(top.rest), <<"[">>)
            THEN [st EXCEPT !.i = i + 1,
                            !.result = [@ EXCEPT !.visibility =
                                           Strs(parseInlineArray(top.rest))]]
            ELSE [st EXCEPT !.i = i + 1,
                            !.result = IF Trim(top.rest) # <<>>
                                       THEN [@ EXCEPT !.visibility = Str(Trim(top.rest))]
                                       ELSE @]
       ELSE IF top.key = KeyVisibilityEmails
       THEN [op |-> "inner", lines |-> lines, i |-> i, j |-> i + 1,
             map |-> NoObject, result |-> st.result]
       ELSE [st EXCEPT !.i = i + 1]

\* the inner loop is left: the map is kept and the outer loop goes on at i + 1
innerLeft(st, i) ==
    [op |-> "outer", lines |-> st.lines, i |-> i + 1,
     result |-> withEmails(st.result, st.map)]

\* variant: the inner loop steps back by two lines where it stops
innerIterBackwards(st) ==
    LET lines == st.lines
        j == st.j
        sub == lines[j]
        mm == subMapping(sub)
        term == Trim(mm.term)
        after == Trim(mm.rest)
        blk == parseBlockArray(lines, j + 1, 4)
    IN IF isTopKeyLine(sub) \/ StartsWith(sub, Fence)
       THEN innerLeft(st, j - 2)
       ELSE IF ~mm.ok \/ term = <<>>
       THEN [st EXCEPT !.j = j + 1]
       ELSE IF StartsWith(after, <<"[">>)
       THEN [st EXCEPT !.map = Put(@, term, Strs(parseInlineArray(after))),
                       !.i = j, !.j = j + 1]
       ELSE IF after = <<>>
       THEN [st EXCEPT !.map = Put(@, term, Strs(blk.items)),
                       !.i = blk.end, !.j = blk.end + 1]
       ELSE [st EXCEPT !.map = Put(@, term, Strs(<<after>>)), !.i = j, !.j = j + 1]

\* one iteration of the inner loop at line st.j, with the j++ that ends it
innerIter(st) ==
    LET lines == st.lines
        j == st.j
        sub == lines[j]
        mm == subMapping(sub)
        term == Trim(mm.term)
        after == Trim(mm.rest)
        blk == parseBlockArray(lines, j + 1, 4)
    IN IF isTopKeyLine(sub) \/ StartsWith(sub, Fence)
       THEN innerLeft(st, j - 1)
       ELSE IF ~mm.ok \/ term = <<>>
       THEN [st EXCEPT !.j = j + 1]
       ELSE IF StartsWith(after, <<"[">>)
       THEN [st EXCEPT !.map = Put(@, term, Strs(parseInlineArray(after))),
                       !.i = j, !.j = j + 1]
       ELSE IF after = <<>>
       THEN [st EXCEPT !.map = Put(@, term, Strs(blk.items)),
                       !.i = blk.end, !.j = blk.end + 1]
       ELSE [st EXCEPT !.map = Put(@, term, Strs(<<after>>)), !.i = j, !.j = j + 1]

\* lines of a metadata block, well-formed and not
LoopLines ==
    {LineVisibility, LineVisibility \o <<" ", "[", "f">>, ItemF,
     LineVisibilityEmails, MapF, MapFBlock, Item4A,
     <<>>, <<"#", " ", "c">>, Fence, <<" ", " ", ":">>, <<"t", ":", " ", "x">>}
MaxLines == 3

InitLoop ==
    /\ notes = {}
    /\ terms = {}
    /\ req = [c \in Clients |-> IdleReq]
    /\ now = 0
    /\ hist = [k \in Keys |-> NoHist]
    /\ \E ls \in SeqsOfLen(LoopLines, 0..MaxLines) :
          last = [op |-> "yaml", yaml |-> Join(ls, <<"\n">>)]

\* if (!yaml) return {}; const lines = yaml.split(/\r?\n/)
ParseStart ==
    /\ last.op = "yaml"
    /\ last' = IF last.yaml = <<>>
               THEN [op |-> "done", yaml |-> last.yaml, result |-> NoSubset]
               ELSE [op |-> "outer", lines |-> SplitLines(last.yaml), i |-> 1,
                     result |-> NoSubset]
    /\ UNCHANGED <<notes, terms, req, now, hist>>

OuterIter ==
    /\ last.op = "outer"
    /\ last.i <= Len(last.lines)
    /\ last' = outerIter(last)
    /\ UNCHANGED <<notes, terms, req, now, hist>>

InnerIter ==
    /\ last.op = "inner"
    /\ last.j <= Len(last.lines)
    /\ last' = innerIter(last)
    /\ UNCHANGED <<notes, terms, req, now, hist>>

\* the inner loop runs out of lines
InnerEnd ==
    /\ last.op = "inner"
    /\ last.j > Len(last.lines)
    /\ last' = innerLeft(last, last.i)
    /\ UNCHANGED <<notes, terms, req, now, hist>>

\* return result
OuterEnd ==
    /\ last.op = "outer"
    /\ last.i > Len(last.lines)
    /\ last' = [op |-> "done", yaml |-> Join(last.lines, <<"\n">>),
                result |-> last.result]
    /\ UNCHANGED <<notes, terms, req, now, hist>>

NextLoop == ParseStart \/ OuterIter \/ InnerIter \/ InnerEnd \/ OuterEnd

SpecLoop == InitLoop /\ [][NextLoop]_vars

(***************************************************************************)
(* Visibility resolver: toVisibilityArray, hasSharedAccess                 *)
(***************************************************************************)
IsArray(v) == v.type = "array"
IsString(v) == v.type = "string"

\* String(item ?? ""), for the items that occur: strings, null and undefined
ToStr(item) == IF IsString(item) THEN item.str ELSE <<>>

toVisibilityArray(value) ==
    IF IsArray(value)
    THEN SelectNonEmpty([i \in DOMAIN value.items |-> Trim(ToStr(value.items[i]))])
    ELSE IF IsString(value)
    THEN IF Trim(value.str) # <<>> THEN <<Trim(value.str)>> ELSE <<>>
    ELSE <<>>

EntriesOf(mapValue) == IF mapValue.type = "object" THEN mapValue.entries ELSE NoObject

\* for (const [k, v] of Object.entries(map)) normalizedMap[k.trim().toLowerCase()] = ...
RECURSIVE normalizedMapFrom(_, _, _)
normalizedMapFrom(map, n, acc) ==
    IF n > Len(map) THEN acc
    ELSE normalizedMapFrom(map, n + 1,
             Put(acc, ToLower(Trim(map[n].key)),
                 IF IsArray(map[n].val) THEN map[n].val ELSE Strs(<<>>)))

normalizedMap(map) == normalizedMapFrom(map, 1, NoObject)

\* variant: the entry compared without toLowerCase()
entryMatchesExact(entry, email) == entry.str = ToLower(Trim(email))

\* entry.toLowerCase() === lowerEmail
entryMatches(entry, email) == ToLower(entry.str) = ToLower(Trim(email))

\* Array.isArray(list) && list.some((entry) => entry.toLowerCase() === lowerEmail)
listHas(list, email) ==
    IsArray(list) /\ \E i \in DOMAIN list.items : entryMatches(list.items[i], email)

\* variant: access through any key of visibility_emails, listed in
\* visibility or not
hasSharedAccessAnyKey(note, email) ==
    LET map == EntriesOf(note.metadata.visibility_emails)
    IN \E n \in DOMAIN map : listHas(map[n].val, email)

\* terms are tried in listed order and the first match returns true, so the
\* result is true exactly when some term matches; no term at all gives false
hasSharedAccess(note, email) ==
    LET visible == toVisibilityArray(note.metadata.visibility)
        map == EntriesOf(note.metadata.visibility_emails)
        byKey == normalizedMap(map)
    IN \E n \in DOMAIN visible :
          LET t == Trim(visible[n]) IN
          /\ t # <<>>
          /\ \/ listHas(Get(map, t), email)
             \/ listHas(Get(byKey, ToLower(t)), email)

(***************************************************************************)
(* Shared-note discovery: listNotesSharedWithEmail and GET /api/shared-notes*)
(***************************************************************************)

\* frontmatter with inline lists: term f of visibility lists a@x
DocInline ==
    <<"-", "-", "-", "\n", "v", "i", "s", "i", "b", "i", "l", "i", "t", "y", ":", " ", "[", "f", "]", "\n", "v", "i", "s", "i", "b", "i", "l", "i", "t", "y", "_", "e", "m", "a", "i", "l", "s", ":", "\n", " ", " ", "f", ":", " ", "[", "a", "@", "x", "]", "\n", "-", "-", "-", "\n", "h", "i">>

\* no frontmatter; the email occurs in the text only
DocBody ==
    <<"h", "i", " ", "a", "@", "x">>

\* a@x is listed under f, but visibility names g
DocOtherTerm ==
    <<"-", "-", "-", "\n", "v", "i", "s", "i", "b", "i", "l", "i", "t", "y", ":", " ", "g", "\n", "v", "i", "s", "i", "b", "i", "l", "i", "t", "y", "_", "e", "m", "a", "i", "l", "s", ":", "\n", " ", " ", "f", ":", " ", "[", "a", "@", "x", "]", "\n", "-", "-", "-", "\n">>

\* block lists, term and email in another letter case
DocBlock ==
    <<"-", "-", "-", "\n", "v", "i", "s", "i", "b", "i", "l", "i", "t", "y", ":", "\n", " ", " ", "-", " ", "F", "\n", "v", "i", "s", "i", "b", "i", "l", "i", "t", "y", "_", "e", "m", "a", "i", "l", "s", ":", "\n", " ", " ", "f", ":", "\n", " ", " ", " ", " ", "-", " ", "A", "@", "x", "\n", "-", "-", "-", "\n">>

\* visibility_emails without visibility
DocNoVisibility ==
    <<"-", "-", "-", "\n", "v", "i", "s", "i", "b", "i", "l", "i", "t", "y", "_", "e", "m", "a", "i", "l", "s", ":", "\n", " ", " ", "f", ":", " ", "[", "a", "@", "x", "]", "\n", "-", "-", "-", "\n">>

\* visibility is an empty list
DocEmptyVisibility ==
    <<"-", "-", "-", "\n", "v", "i", "s", "i", "b", "i", "l", "i", "t", "y", ":", " ", "[", "]", "\n", "v", "i", "s", "i", "b", "i", "l", "i", "t", "y", "_", "e", "m", "a", "i", "l", "s", ":", "\n", " ", " ", "f", ":", " ", "[", "a", "@", "x", "]", "\n", "-", "-", "-", "\n">>

\* two keys that differ in case only
DocTwoKeys ==
    <<"-", "-", "-", "\n", "v", "i", "s", "i", "b", "i", "l", "i", "t", "y", ":", " ", "f", "\n", "v", "i", "s", "i", "b", "i", "l", "i", "t", "y", "_", "e", "m", "a", "i", "l", "s", ":", "\n", " ", " ", "F", ":", " ", "[", "a", "@", "x", "]", "\n", " ", " ", "f", ":", " ", "[", "b", "@", "x", "]", "\n", "-", "-", "-", "\n">>

Docs == {DocInline, DocBody, DocOtherTerm, DocBlock, DocNoVisibility, DocEmptyVisibility, DocTwoKeys}

MaxRows == 2
UpdatedAts == {0, 1}
SharedKeys == {<<"u1", "n1">>, <<"u2", "n1">>, <<"u1", "n2">>}

\* the rows a table can hold for primary key k
RowsFor(k) ==
    {[user_id |-> k[1], id |-> k[2], markdown |-> d, source_name |-> Null,
      last_modified |-> t, updated_at |-> at] :
        d \in Docs, t \in Timestamps, at \in UpdatedAts}

\* tables of at most n rows, one row per primary key
RECURSIVE TablesUpTo(_)
TablesUpTo(n) ==
    IF n = 0 THEN {{}}
    ELSE TablesUpTo(n - 1) \cup
         {tbl \cup {r} : tbl \in TablesUpTo(n - 1),
                         r \in UNION {RowsFor(k) : k \in SharedKeys}}

Tables ==
    {tbl \in TablesUpTo(MaxRows) :
        \A r1, r2 \in tbl : (r1.user_id = r2.user_id /\ r1.id = r2.id) => r1 = r2}

\* session users: none, one without an email string, and some with one
Sessions ==
    {Null, [email |-> Undefined], [email |-> Str(<<" ">>)], [email |-> Str(EmailA)],
     [email |-> Str(<<"A", "@", "x", " ">>)], [email |-> Str(EmailB)]}

\* WHERE markdown ILIKE '%' || $1 || '%', for an email without the pattern
\* characters % _ \
ilikeContains(markdown, email) == Contains(ToLower(markdown), ToLower(email))

\* the stored documents, parsed and matched once
ParsedDocs == [d \in Docs |-> parsedText(d)]
Matching == [e \in {EmailA, EmailB} |-> {d \in Docs : ilikeContains(d, e)}]

\* ORDER BY updated_at DESC: every order of the matching rows that agrees
\* with it; rows with equal updated_at come in any order
RECURSIVE Orderings(_)
Orderings(rows) ==
    IF rows = {} THEN {<<>>}
    ELSE UNION {{<<r>> \o rest : rest \in Orderings(rows \ {r})} :
                   r \in {x \in rows : \A y \in rows : x.updated_at >= y.updated_at}}

listNotesSharedWithEmail(tbl, email) ==
    Orderings({r \in tbl : r.markdown \in Matching[email]})

\* the note the loop of GET /api/shared-notes builds from a row
noteOfRow(row) ==
    [id |-> row.id,
     lastModified |-> row.last_modified,
     sourceName |-> IF row.source_name = Null THEN Undefined ELSE row.source_name]
    @@ ParsedDocs[row.markdown]

\* a.id.localeCompare(b.id) < 0 on the ids of the model
IdOrder == <<"n1", "n2">>
IdRank(id) == CHOOSE i \in DOMAIN IdOrder : IdOrder[i] = id

\* variant: a comparator that breaks ties by descending id
sortsBeforeIdDescending(a, b) ==
    \/ a.lastModified > b.lastModified
    \/ a.lastModified = b.lastModified /\ IdRank(a.id) > IdRank(b.id)

\* the comparator of notes.sort: lastModified descending, then id ascending
sortsBefore(a, b) ==
    \/ a.lastModified > b.lastModified
    \/ a.lastModified = b.lastModified /\ IdRank(a.id) < IdRank(b.id)

\* notes.sort(...): the sort is stable, so of the notes no other note sorts
\* before, the one that comes first in the list is taken first
RECURSIVE sortNotes(_)
sortNotes(list) ==
    IF list = <<>> THEN <<>>
    ELSE LET least == {i \in DOMAIN list :
                          \A j \in DOMAIN list : ~sortsBefore(list[j], list[i])}
             first == CHOOSE i \in least : \A j \in least : i <= j
         IN <<list[first]>> \o
            sortNotes(SubSeq(list, 1, first - 1) \o SubSeq(list, first + 1, Len(list)))

\* inputs of the visibility resolver
VisibilityIn ==
    {Undefined, Null, Str(<<>>), Str(<<" ", " ">>), Str(TermF), Str(<<" ", "F", " ">>),
     Strs(<<>>), Strs(<<<<>>, <<" ">>>>),
     [type |-> "array", items |-> <<Null, Undefined>>],
     Strs(<<TermG, TermF>>)}

MapKeys == {TermF, <<"F">>, <<" ", "f">>, TermG}
MapVals ==
    {Strs(<<EmailA>>), Strs(<<<<"A", "@", "X">>>>), Strs(<<EmailB, EmailA>>),
     Strs(<<EmailB>>), Null}
MapsIn ==
    {NoObject}
    \cup {<<[key |-> k, val |-> v]>> : k \in MapKeys, v \in MapVals}
    \cup {m \in {<<[key |-> k1, val |-> v1], [key |-> k2, val |-> v2]>> :
                    k1 \in MapKeys, k2 \in MapKeys, v1 \in MapVals, v2 \in MapVals} :
             m[1].key # m[2].key}
VisibilityEmailsIn ==
    {Undefined} \cup {[type |-> "object", entries |-> m] : m \in MapsIn}

EmailsIn == {EmailA, <<"A", "@", "x">>, <<" ", "a", "@", "x", " ">>, EmailB, <<>>}

ResolverInputs ==
    {[op |-> "input",
      note |-> [metadata |-> [visibility |-> v, visibility_emails |-> m]],
      email |-> e] :
        v \in VisibilityIn, m \in VisibilityEmailsIn, e \in EmailsIn}

\* either a stored table for the discovery handler, or an input for a direct
\* call of the resolver
InitShared ==
    /\ terms = {}
    /\ req = [c \in Clients |-> IdleReq]
    /\ now = 0
    /\ hist = [k \in Keys |-> NoHist]
    /\ \/ notes \in Tables /\ last = [op |-> "none"]
       \/ notes = {} /\ last \in ResolverInputs

\* hasSharedAccess(note, email) on the drawn input
CanView ==
    /\ last.op = "input"
    /\ last' = [op |-> "canView", note |-> last.note, email |-> last.email,
                result |-> hasSharedAccess(last.note, last.email)]
    /\ UNCHANGED <<notes, terms, req, now, hist>>

\* GET /api/shared-notes up to the query: 401 without a session user, 400
\* without an email, else the candidate rows in the order the store returns
SharedStart(c, user) ==
    /\ req[c].pc = "idle"
    /\ last.op \notin {"input", "canView"}
    /\ LET userEmail == IF user # Null /\ IsString(user.email)
                        THEN ToLower(Trim(user.email.str)) ELSE <<>>
       IN IF user = Null \/ userEmail = <<>>
          THEN /\ last' = [op |-> "shared", client |-> c,
                           status |-> IF user = Null THEN 401 ELSE 400]
               /\ req' = req
          ELSE /\ \E rows \in listNotesSharedWithEmail(notes, userEmail) :
                     req' = [req EXCEPT ![c] =
                                [pc |-> "scan", pending |-> <<>>, email |-> userEmail,
                                 rows |-> rows, i |-> 1, out |-> <<>>, seen |-> {},
                                 skipped |-> {}]]
               /\ last' = [op |-> "start", client |-> c]
    /\ UNCHANGED <<notes, terms, now, hist>>

\* one turn of the loop over the rows: parse, resolve, drop a repeated id
\* the loop's state after a row: the note is pushed when keep holds
scanned(r, note, keep) ==
    [r EXCEPT !.i = @ + 1,
              !.out = IF keep THEN Append(@, note) ELSE @,
              !.seen = IF keep THEN @ \cup {note.id} ELSE @]

\* variant: the loop without the resolver
scanRowAll(r, note) == scanned(r, note, note.id \notin r.seen)

\* variant: the loop without the set of seen ids
scanRowRepeated(r, note) == scanned(r, note, hasSharedAccess(note, r.email))

\* if (!hasSharedAccess(note, userEmail)) continue; if (seen.has(note.id)) continue
scanRow(r, note) ==
    scanned(r, note, hasSharedAccess(note, r.email) /\ note.id \notin r.seen)

SharedRow(c) ==
    /\ req[c].pc = "scan"
    /\ req[c].i <= Len(req[c].rows)
    /\ req' = [req EXCEPT ![c] = scanRow(@, noteOfRow(@.rows[@.i]))]
    /\ UNCHANGED <<notes, terms, now, hist, last>>

\* after the loop: sort and answer 200
SharedRespond(c) ==
    /\ req[c].pc = "scan"
    /\ req[c].i > Len(req[c].rows)
    /\ last' = [op |-> "shared", client |-> c, status |-> 200,
                email |-> req[c].email, rows |-> req[c].rows,
                skipped |-> req[c].skipped,
                notes |-> sortNotes(req[c].out)]
    /\ req' = [req EXCEPT ![c] = IdleReq]
    /\ UNCHANGED <<notes, terms, now, hist>>

NextShared ==
    \/ CanView
    \/ \E user \in Sessions : SharedStart("c1", user)
    \/ SharedRow("c1")
    \/ SharedRespond("c1")

SpecShared == InitShared /\ [][NextShared]_vars

(***************************************************************************)
(* Discovery in which the processing of a row may throw                    *)
(***************************************************************************)
\* variant: a throw that leaves the loop
abortScan(r) ==
    [r EXCEPT !.i = Len(r.rows) + 1, !.skipped = @ \cup {r.i}]

\* catch (err) { console.warn(...) }: the loop goes on with the next row
skipRow(r) ==
    [r EXCEPT !.i = @ + 1, !.skipped = @ \cup {r.i}]

\* one turn of the loop in which parseDiaryxString or hasSharedAccess throws
SharedRowFails(c) ==
    /\ req[c].pc = "scan"
    /\ req[c].i <= Len(req[c].rows)
    /\ req' = [req EXCEPT ![c] = skipRow(@)]
    /\ UNCHANGED <<notes, terms, now, hist, last>>

InitSharedRows ==
    /\ InitShared
    /\ last.op = "none"

NextSharedFail ==
    \/ \E user \in Sessions : SharedStart("c1", user)
    \/ SharedRow("c1")
    \/ SharedRowFails("c1")
    \/ SharedRespond("c1")

SpecSharedFail == InitSharedRows /\ [][NextSharedFail]_vars

(***************************************************************************)
(* The four routes behind getUserFromSession                               *)
(***************************************************************************)
\* what getSessionFromRequest resolves to: no session, a session without a
\* user, a user whose id is no string, and a user with a string id
AuthSessions ==
    {Null,
     [user |-> Undefined],
     [user |-> [id |-> Num(1), email |-> Str(EmailA)]],
     [user |-> [id |-> Str("u1"), email |-> Str(EmailA)]]}

\* variant: a request without a session user is served as user u1
getUserFromSessionGuest(session) ==
    LET user == IF session = Null THEN Undefined ELSE session.user
    IN IF user \notin {Undefined, Null} /\ user.id.type = "string"
       THEN [id |-> user.id.str,
             email |-> IF user.email.type = "string" THEN user.email ELSE Null]
       ELSE [id |-> "u1", email |-> Null]

\* session?.user with a string id, or null
getUserFromSession(session) ==
    LET user == IF session = Null THEN Undefined ELSE session.user
    IN IF user \notin {Undefined, Null} /\ user.id.type = "string"
       THEN [id |-> user.id.str,
             email |-> IF user.email.type = "string" THEN user.email ELSE Null]
       ELSE Null

\* GET /api/notes
GetNotes(session) ==
    /\ LET user == getUserFromSession(session)
       IN last' = IF user = Null
                  THEN [op |-> "notes", status |-> 401]
                  ELSE [op |-> "notes", status |-> 200, user |-> user.id,
                        notes |-> listNotesForUser(notes, user.id),
                        visibilityTerms |-> listVisibilityTermsForUser(terms, user.id)]
    /\ UNCHANGED <<notes, terms, req, now, hist>>

\* the body of a request: request.json() throws, or gives the payload
InvalidJson == [valid |-> FALSE]
JsonBody(payload) == [valid |-> TRUE, json |-> payload]

\* POST /api/notes up to `await upsertNotesForUser`; old is what the history
\* keeps of this moment
PostNotesFrom(c, session, body, old) ==
    LET user == getUserFromSession(session)
    IN IF user = Null
       THEN /\ last' = [op |-> "sync", status |-> 401]
            /\ UNCHANGED <<notes, terms, req, now, hist>>
       ELSE IF ~body.valid
       THEN /\ last' = [op |-> "sync", status |-> 400, error |-> "INVALID_JSON"]
            /\ UNCHANGED <<notes, terms, req, now, hist>>
       ELSE SyncStartFrom(c, user.id, body.json, old)

PostNotes(c, session, body) == PostNotesFrom(c, session, body, NotRecorded)

\* DELETE /api/notes/:id
DeleteNotes(session, id) ==
    LET user == getUserFromSession(session)
    IN IF user = Null
       THEN /\ last' = [op |-> "delete", status |-> 401, id |-> id]
            /\ UNCHANGED <<notes, terms, req, now, hist>>
       ELSE DeleteNote(user.id, id)

\* GET /api/shared-notes
GetShared(c, session) == SharedStart(c, getUserFromSession(session))

AuthNoteItems ==
    {[type |-> "object", id |-> Str("n1"), markdown |-> Str(d),
      sourceName |-> Undefined, lastModified |-> lm] :
        d \in {DocInline, DocBody}, lm \in {Num(0)}}
AuthPayloads ==
    {InvalidJson} \cup
    {JsonBody([notes |-> Arr(b), visibilityTerms |-> t]) :
        b \in SeqsOfLen(AuthNoteItems, {0, 1}),
        t \in {Undefined, Arr(<<TermItem(TermF, <<EmailA>>)>>)}}

NextAuth ==
    \/ \E s \in AuthSessions : GetNotes(s)
    \/ \E s \in AuthSessions, p \in AuthPayloads : PostNotes("c1", s, p)
    \/ \E s \in AuthSessions : DeleteNotes(s, "n1")
    \/ \E s \in AuthSessions : GetShared("c1", s)
    \/ \E i \in DOMAIN req["c1"].pending : StoreUpsert("c1", i)
    \/ SyncTerms("c1")
    \/ \E i \in DOMAIN req["c1"].pending : StoreInsert("c1", i)
    \/ SyncInserted("c1")
    \/ SyncRespond("c1")
    \/ SharedRow("c1")
    \/ SharedRespond("c1")

SpecAuth == Init /\ [][NextAuth]_vars

(***************************************************************************)
(* Sync calls whose body is no JSON or holds ill-typed note items          *)
(***************************************************************************)
SessionU1 == [user |-> [id |-> Str("u1"), email |-> Str(EmailA)]]

\* items without a string id or a string markdown, and an item that is no
\* object; the id n2 comes with ill-typed items only
IllTypedItems ==
    {[type |-> "object", id |-> Str("n2"), markdown |-> Num(5),
      sourceName |-> Undefined, lastModified |-> Num(MaxTs)],
     [type |-> "object", id |-> Undefined, markdown |-> Str(MdA),
      sourceName |-> Undefined, lastModified |-> Num(MaxTs)],
     Null}
ValidBodies ==
    {InvalidJson, JsonBody([notes |-> Str(MdA), visibilityTerms |-> Undefined])}
    \cup {JsonBody([notes |-> Arr(b), visibilityTerms |-> Undefined]) :
             b \in SeqsOfLen(NoteItems({"n1"}, Contents) \cup IllTypedItems,
                             BatchLens)}

\* what the history keeps of the moment a request begins: the items sent
RecordedItems(body) ==
    [recorded |-> TRUE,
     sent |-> IF body.valid THEN ArrayOrEmpty(body.json.notes) ELSE <<>>]

NextValid ==
    \/ \E b \in ValidBodies : PostNotesFrom("c1", SessionU1, b, RecordedItems(b))
    \/ \E i \in DOMAIN req["c1"].pending : StoreUpsert("c1", i)
    \/ SyncTerms("c1")
    \/ SyncRespond("c1")

SpecValid == Init /\ [][NextValid]_vars

(***************************************************************************)
(* Sync merge policy                                                       *)
(***************************************************************************)
UpsertApplied == last.op = "upsert" /\ last.before # NoRow

\* C1: a conditional upsert applied to a stored row with lastModified T
\* replaces markdown, sourceName and lastModified when its own lastModified
\* is >= T, and otherwise leaves the row as it was; neither case is an error.
C1_MergeMonotone ==
    UpsertApplied =>
        LET q == last.q
            T == last.before.last_modified
            r == RowAt(notes, KeyOf(q))
        IN /\ q.last_modified >= T =>
                /\ r.markdown = q.markdown
                /\ r.source_name = q.source_name
                /\ r.last_modified = q.last_modified
           /\ q.last_modified < T => r = last.before
           /\ ~req[last.client].failed

C1_Witness ==
    /\ UpsertApplied
    /\ last.q.last_modified < last.before.last_modified
    /\ last.q.markdown # last.before.markdown
    /\ RowAt(notes, KeyOf(last.q)) = last.before

\* C2: after sequential upsert calls on one (owner, id), none deleted, the
\* stored row carries the greatest timestamp written and the content of the
\* last call that carried it.
C2_SequentialLastWriter ==
    \A k \in Keys :
        (hist[k].top # NoRow /\ hist[k].seq /\ ~hist[k].del /\ ~pendingOn(k))
            => Cells(RowAt(notes, k)) = hist[k].top

C2_Witness ==
    \E k \in Keys :
        /\ hist[k].seq /\ hist[k].tie /\ ~hist[k].del /\ ~pendingOn(k)
        /\ Cells(RowAt(notes, k)) = hist[k].top
        /\ last.op = "upsert" /\ last.before # NoRow
        /\ last.before.markdown # hist[k].top.markdown

\* C3: when the writes dispatched to one (owner, id), overlapping or not,
\* carry their greatest timestamp once (so, whenever all their timestamps
\* differ), the row stored once all are applied is the write with the
\* greatest timestamp, whatever the order the store applied them in.
C3_RaceGreatestWins ==
    \A k \in Keys :
        (hist[k].top # NoRow /\ ~hist[k].tie /\ ~hist[k].del /\ ~pendingOn(k))
            => Cells(RowAt(notes, k)) = hist[k].top

\* the write applied last lost against a greater one dispatched with it
C3_Witness ==
    \E k \in Keys :
        /\ ~hist[k].seq /\ ~hist[k].tie /\ ~hist[k].del /\ ~pendingOn(k)
        /\ UpsertApplied /\ KeyOf(last.q) = k
        /\ last.q.last_modified < last.before.last_modified
        /\ Cells(RowAt(notes, k)) = hist[k].top

Resolved == last.op = "canView"
Discovered == last.op = "shared" /\ last.status = 200

Visibility(note) == toVisibilityArray(note.metadata.visibility)
Candidates == {last.rows[i] : i \in DOMAIN last.rows}
Returned == {last.notes[i] : i \in DOMAIN last.notes}

\* some term of the normalized visibility list has a key of visibility_emails
\* equal to it after trim and case-folding whose list holds the email
ListedUnderSomeKey(note, email) ==
    LET map == EntriesOf(note.metadata.visibility_emails)
    IN \E n \in DOMAIN Visibility(note), k \in DOMAIN map :
          /\ ToLower(Trim(map[k].key)) = ToLower(Visibility(note)[n])
          /\ IsArray(map[k].val)
          /\ \E i \in DOMAIN map[k].val.items :
                ToLower(map[k].val.items[i].str) = ToLower(Trim(email))

\* C5: the ids shared-note discovery returns are exactly the ids of the
\* candidate rows whose parsed note the visibility resolver accepts for the
\* viewer; every returned note is such a row's note, so a row that only
\* contains the email in its text or under a term not in visibility is left out.
C5_DiscoveryIsResolver ==
    Discovered =>
        /\ {n.id : n \in Returned} =
               {r.id : r \in {c \in Candidates :
                                 hasSharedAccess(noteOfRow(c), last.email)}}
        /\ \A n \in Returned :
              /\ \E r \in Candidates : n = noteOfRow(r)
              /\ hasSharedAccess(n, last.email)
              /\ ListedUnderSomeKey(n, last.email)

C5_Witness ==
    /\ Discovered
    /\ \E r \in Candidates : r.markdown = DocInline /\ noteOfRow(r) \in Returned
    /\ \E r \in Candidates :
          r.markdown \in {DocBody, DocOtherTerm} /\ r.id \notin {n.id : n \in Returned}

\* C6, as claimed: canView is true exactly when some term of the normalized
\* visibility list has a key of visibility_emails, equal to it after trim and
\* case-folding, whose list contains the viewer email case-insensitively, and
\* this for every such key when several keys differ only in case or white space.
C6_ExactlyWhenListed ==
    Resolved => (last.result <=> ListedUnderSomeKey(last.note, last.email))

\* C7: a note whose normalized visibility list is empty is refused for every
\* viewer email, whatever visibility_emails holds, and discovery never returns
\* such a note.
C7_NoVisibilityNoAccess ==
    /\ (Resolved /\ Visibility(last.note) = <<>>) => ~last.result
    /\ Discovered => \A n \in Returned : Visibility(n) # <<>>

C7_Witness ==
    /\ Discovered
    /\ Returned # {}
    /\ \E r \in Candidates :
          /\ r.markdown \in {DocNoVisibility, DocEmptyVisibility}
          /\ r.id \notin {n.id : n \in Returned}

ToUpperChar(c) ==
    IF \E i \in DOMAIN LowerChars : LowerChars[i] = c
    THEN UpperChars[CHOOSE i \in DOMAIN LowerChars : LowerChars[i] = c]
    ELSE c
ToUpper(s) == [i \in DOMAIN s |-> ToUpperChar(s[i])]

\* the note with the emails stored under its k-th key in the letter case f gives
Recased(note, k, f(_)) ==
    LET map == note.metadata.visibility_emails.entries
        val == map[k].val
    IN [note EXCEPT !.metadata.visibility_emails.entries[k].val =
           IF IsArray(val)
           THEN [val EXCEPT !.items = [i \in DOMAIN val.items |-> Str(f(val.items[i].str))]]
           ELSE val]

\* C8: two viewer emails that are equal after trim and case-folding get the
\* same answer for every note, and changing the letter case of the emails
\* stored in visibility_emails changes no answer.
C8_CaseInsensitive ==
    Resolved =>
        /\ \A e \in EmailsIn :
              ToLower(Trim(e)) = ToLower(Trim(last.email))
                  => hasSharedAccess(last.note, e) = last.result
        /\ \A k \in DOMAIN EntriesOf(last.note.metadata.visibility_emails) :
              /\ hasSharedAccess(Recased(last.note, k, ToLower), last.email) = last.result
              /\ hasSharedAccess(Recased(last.note, k, ToUpper), last.email) = last.result

C8_Witness ==
    /\ Resolved
    /\ last.result
    /\ last.email = <<" ", "a", "@", "x", " ">>
    /\ \E k \in DOMAIN EntriesOf(last.note.metadata.visibility_emails) :
          last.note.metadata.visibility_emails.entries[k].val = Strs(<<<<"A", "@", "X">>>>)

(***************************************************************************)
(* Visibility terms of a sync call                                         *)
(***************************************************************************)
Responded(status) == last.op = "respond" /\ last.status = status

\* C9, as claimed: a sync call whose visibilityTerms is an empty list clears
\* the owner's terms: once it has answered (no other request having run
\* beside it), the owner has no term left.
C9_EmptyListClears ==
    (Responded(200) /\ last.solo /\ last.termsIn = Arr(<<>>))
        => listVisibilityTermsForUser(terms, last.user) = {}

\* the request of client c whose step this is omits visibilityTerms
OmitsTerms(c) ==
    IF req[c].pc = "idle" THEN req'[c].termsIn = Undefined
    ELSE req[c].termsIn = Undefined

\* C10: no step of a sync call that omits visibilityTerms changes the stored
\* visibility term records, whatever notes it carries.
C10_OmittedTermsKept ==
    [][\A c \in Clients :
          (req'[c] # req[c] /\ OmitsTerms(c)) => terms' = terms]_vars

C10_Witness ==
    /\ Responded(200)
    /\ last.termsIn = Undefined
    /\ last.nnotes > 0
    /\ listVisibilityTermsForUser(terms, last.user) # {}

\* what listVisibilityTermsForUser returns for the terms a payload submits:
\* one record per trimmed term name, holding the emails of the last item
\* of that name
SubmittedTerms(termsIn) ==
    LET entries == termEntries(fromEntries(validTerms([visibilityTerms |-> termsIn])))
    IN {entries[i] : i \in DOMAIN entries}

\* C11: when a sync call that submits a non-empty list of valid terms has
\* answered 200 (no other request having run beside it), the owner's stored
\* terms are exactly the submitted ones: nothing stored earlier survives and
\* no email list is merged with an earlier one.
C11_TermsReplaced ==
    (Responded(200) /\ last.solo /\ SubmittedTerms(last.termsIn) # {})
        => listVisibilityTermsForUser(terms, last.user) = SubmittedTerms(last.termsIn)

C11_Witness ==
    /\ Responded(200) /\ last.solo
    /\ last.old.terms = {[term |-> TermF, emails |-> <<EmailA>>]}
    /\ last.termsIn = Arr(<<TermItem(TermG, <<EmailA>>)>>)
    /\ listVisibilityTermsForUser(terms, last.user) =
           {[term |-> TermG, emails |-> <<EmailA>>]}

Quiet == \A c \in Clients : req[c].pc = "idle"

\* C12, as claimed: replacement is atomic per call: whatever the interleaving
\* of the deletes and inserts of overlapping calls of one owner, no call fails
\* on an insert because of the other, and once all calls have finished the
\* stored terms are the set one call submitted, never a union or a part.
C12_AtomicReplace ==
    /\ ~Responded(500)
    /\ Quiet => listVisibilityTermsForUser(terms, "u1")
                    \in {SubmittedTerms(t) : t \in FailTermsIn}

\* C13, as claimed: when a replacement of the visibility terms fails after
\* it has started (the store rejects one of the inserts that follow the
\* delete), the owner reads afterwards the complete set stored before the call.
C13_FailedReplaceKeeps ==
    Responded(500) =>
        listVisibilityTermsForUser(terms, last.user) = last.old.terms

NoRepeat(xs) == \A i, j \in DOMAIN xs : xs[i] = xs[j] => i = j

\* C14: every email stored in a visibility term record is trimmed,
\* lower-cased, not empty and contains "@", and none occurs twice in its
\* record; a submitted email without "@" is never stored.
C14_StoredEmailsNormal ==
    \A r \in terms :
        /\ \A j \in DOMAIN r.emails :
              /\ Trim(r.emails[j]) = r.emails[j]
              /\ ToLower(r.emails[j]) = r.emails[j]
              /\ r.emails[j] # <<>>
              /\ IncludesChar(r.emails[j], "@")
        /\ NoRepeat(r.emails)

C14_Witness ==
    /\ Responded(200)
    /\ Len(ArrayOrEmpty(last.termsIn)) = 2
    /\ \E j \in {1, 2} : \E e \in DOMAIN last.termsIn.items[j].emails.items :
          ~IncludesChar(last.termsIn.items[j].emails.items[e].str, "@")
    /\ listVisibilityTermsForUser(terms, last.user) =
           {[term |-> TermF, emails |-> <<EmailA>>],
            [term |-> TermG, emails |-> <<EmailB>>]}

(***************************************************************************)
(* Batches that fail part-way                                              *)
(***************************************************************************)
\* the records kept of the request in progress and of the one that ended last
BatchRecords ==
    {req[c].old : c \in {d \in Clients : req[d].pc # "idle"}}
    \cup (IF last.op \in {"respond", "crash"} THEN {last.old} ELSE {})

\* row r is as it was before the batch, or is exactly one write of the batch
\* that passed the timestamp test against the row it found
WholeRow(r, old) ==
    \/ r \in old.notes
    \/ \E i \in DOMAIN old.batch :
          /\ Cells(r) = RowOf(old.batch[i])
          /\ \A pre \in RowsAt(old.notes, KeyOf(old.batch[i])) :
                old.batch[i].last_modified >= pre.last_modified

\* C15: when a batch upsert fails part-way (the store rejects a write, or
\* the process stops), every stored row is either as it was before the batch
\* or exactly the markdown, sourceName and lastModified of one incoming item
\* that passed the timestamp test; no row mixes the fields of two writes.
C15_PartialBatchWholeRows ==
    \A old \in BatchRecords : \A r \in notes : WholeRow(r, old)

C15_Witness ==
    /\ last.op = "crash" \/ Responded(500)
    /\ Len(last.old.batch) = 2
    /\ \E i, j \in {1, 2} :
          /\ last.old.batch[i].id = "n1" /\ last.old.batch[j].id = "n2"
          /\ RowAt(last.old.notes, <<"u1", "n1">>) # NoRow
          /\ RowAt(last.old.notes, <<"u1", "n2">>) # NoRow
          /\ Cells(RowAt(notes, <<"u1", "n1">>)) = RowOf(last.old.batch[i])
          /\ RowAt(notes, <<"u1", "n1">>) \notin last.old.notes
          /\ RowAt(notes, <<"u1", "n2">>) \in last.old.notes
          /\ Cells(RowAt(notes, <<"u1", "n2">>)) # RowOf(last.old.batch[j])
          /\ upsertWins(last.old.batch[j], RowAt(notes, <<"u1", "n2">>))

(***************************************************************************)
(* Frame of the note operations and uniqueness of (owner, id)              *)
(***************************************************************************)
OtherRows(tbl, k) == tbl \ RowsAt(tbl, k)

\* C16: an upsert or a delete of note (owner, id) leaves every row with
\* another (owner, id) as it is, the row of another owner with the same id
\* included, and leaves all visibility term records as they are.
C16_OtherKeysKept ==
    [][/\ last'.op = "upsert" =>
             /\ OtherRows(notes', KeyOf(last'.q)) = OtherRows(notes, KeyOf(last'.q))
             /\ terms' = terms
       /\ last'.op = "delete" =>
             /\ OtherRows(notes', last'.key) = OtherRows(notes, last'.key)
             /\ terms' = terms]_vars

C16_Witness ==
    /\ last.op = "delete" /\ last.key = <<"u1", "n1">>
    /\ RowAt(notes, <<"u1", "n1">>) = NoRow
    /\ RowAt(notes, <<"u2", "n1">>) # NoRow
    /\ RowAt(notes, <<"u1", "n2">>) # NoRow
    /\ listVisibilityTermsForUser(terms, "u1") # {}

\* C17: the store never holds two note rows with the same (owner, id),
\* whatever upserts and deletes ran in whatever interleaving, batches that
\* repeat an id and overlapping first inserts of one id included; rows with
\* the same id differ in their owner.
C17_OneRowPerKey ==
    \A r1, r2 \in notes :
        (r1.user_id = r2.user_id /\ r1.id = r2.id) => r1 = r2

\* overlapping requests have written the same id, several of the writes
\* with the same lastModified, and all of them are applied
C17_Witness ==
    LET k == <<"u1", "n1">> IN
    /\ ~hist[k].seq /\ ~hist[k].del /\ hist[k].tie
    /\ ~pendingOn(k)
    /\ last.op = "upsert" /\ last.before # NoRow
    /\ Cardinality(RowsAt(notes, k)) = 1


\* the lastModified, as it was sent, of the write the store applies in this
\* step, and whether the server had to stamp it
Applying == CHOOSE i \in DOMAIN req["c1"].pending : i \notin DOMAIN req'["c1"].pending
SentLastModified == req["c1"].old.sent[Applying]
Stamped(lm) == ~IsFinite(lm)

\* C18: a note sent with a missing or non-finite lastModified is written with
\* the time at which the server took the request, and that write replaces
\* the stored row exactly when this time is not less than the stored
\* lastModified; every stored lastModified is a finite number
C18_StampedWrites ==
    /\ [](\A r \in notes : r.last_modified \in Nat)
    /\ [][(/\ last'.op = "upsert"
           /\ DOMAIN req'["c1"].pending # DOMAIN req["c1"].pending
           /\ req["c1"].old.recorded
           /\ Stamped(SentLastModified))
          => LET k == KeyOf(last'.q)
                 before == RowAt(notes, k)
                 at == req["c1"].old.at
             IN /\ last'.q.last_modified = at
                /\ IF before = NoRow \/ at >= before.last_modified
                   THEN RowAt(notes', k) = StoredRow(last'.q, now)
                   ELSE RowAt(notes', k) = before]_vars

\* a stamped write has met a stored row with a later lastModified and has
\* left it alone, and the clock has moved since the request was taken
C18_Witness ==
    /\ last.op = "upsert"
    /\ req["c1"].pc = "upsert"
    /\ req["c1"].old.recorded
    /\ \E i \in DOMAIN req["c1"].old.sent :
          /\ Stamped(req["c1"].old.sent[i])
          /\ i \notin DOMAIN req["c1"].pending
          /\ last.q.last_modified = req["c1"].old.at
    /\ last.before # NoRow
    /\ last.q.last_modified < last.before.last_modified
    /\ RowAt(notes, KeyOf(last.q)) = last.before
    /\ now > req["c1"].old.at


\* the candidate rows, in candidate order, whose note the viewer can view
Viewable(i) == hasSharedAccess(noteOfRow(last.rows[i]), last.email)
FirstViewable(id) ==
    {i \in DOMAIN last.rows :
        /\ last.rows[i].id = id /\ Viewable(i)
        /\ \A j \in 1..(i - 1) : ~(last.rows[j].id = id /\ Viewable(j))}

\* C19: shared-note discovery returns no two notes with the same id; the
\* note returned for an id is the note of the first candidate row, in
\* candidate order, that has this id and passes the resolver, and every id
\* with such a row is returned, whatever rows come before it
C19_FirstViewableKept ==
    Discovered =>
        /\ \A i, j \in DOMAIN last.notes :
              last.notes[i].id = last.notes[j].id => i = j
        /\ \A n \in Returned :
              \E i \in FirstViewable(n.id) : n = noteOfRow(last.rows[i])
        /\ \A i \in DOMAIN last.rows :
              Viewable(i) => \E n \in Returned : n.id = last.rows[i].id

\* two owners share different notes under one id with the viewer: the
\* earlier candidate's note is returned and the later one's is not
C19_Witness ==
    /\ Discovered
    /\ \E i, j \in DOMAIN last.rows :
          /\ i < j
          /\ last.rows[i].id = last.rows[j].id
          /\ last.rows[i].user_id # last.rows[j].user_id
          /\ Viewable(i) /\ Viewable(j)
          /\ noteOfRow(last.rows[i]) # noteOfRow(last.rows[j])
          /\ noteOfRow(last.rows[i]) \in Returned
          /\ noteOfRow(last.rows[j]) \notin Returned


\* C20: the list shared-note discovery returns is in descending order of
\* lastModified, and notes with equal lastModified are in ascending order
\* of id, in whatever order the candidate rows came
C20_SortedResult ==
    Discovered =>
        \A i, j \in DOMAIN last.notes :
            i < j =>
                \/ last.notes[i].lastModified > last.notes[j].lastModified
                \/ /\ last.notes[i].lastModified = last.notes[j].lastModified
                   /\ IdRank(last.notes[i].id) < IdRank(last.notes[j].id)

\* two candidates with equal lastModified came with the greater id first
\* and are returned with the lesser id first
C20_Witness ==
    /\ Discovered
    /\ Len(last.rows) = 2 /\ Len(last.notes) = 2
    /\ last.rows[1].last_modified = last.rows[2].last_modified
    /\ IdRank(last.rows[1].id) > IdRank(last.rows[2].id)
    /\ last.notes[1].id = last.rows[2].id
    /\ last.notes[2].id = last.rows[1].id


\* the candidate rows whose processing went through, and of these the first
\* viewable one for an id
Processed(i) == i \notin last.skipped
FirstProcessedViewable(id) ==
    {i \in DOMAIN last.rows :
        /\ last.rows[i].id = id /\ Processed(i) /\ Viewable(i)
        /\ \A j \in 1..(i - 1) :
              ~(last.rows[j].id = id /\ Processed(j) /\ Viewable(j))}

\* C21: when the processing of candidate rows fails during discovery, only
\* those rows are skipped: the call answers 200, every other viewable row's
\* id is returned, and the note returned for an id is that of the first
\* viewable row, among the rows that did not fail, with this id
C21_FailedRowSkipped ==
    (last.op = "shared" /\ "skipped" \in DOMAIN last) =>
        /\ last.status = 200
        /\ \A i \in DOMAIN last.rows :
              (Processed(i) /\ Viewable(i)) =>
                  \E n \in Returned : n.id = last.rows[i].id
        /\ \A n \in Returned :
              \E i \in FirstProcessedViewable(n.id) : n = noteOfRow(last.rows[i])

\* the first of two candidate rows failed and the second, viewable, is
\* returned
C21_Witness ==
    /\ Discovered
    /\ Len(last.rows) = 2
    /\ last.skipped = {1}
    /\ Viewable(1) /\ Viewable(2)
    /\ last.notes = <<noteOfRow(last.rows[2])>>


\* a session that carries no user with a string id
NoSessionUser(s) ==
    \/ s = Null
    \/ s.user \in {Undefined, Null}
    \/ s.user.id.type # "string"

\* C22: a request without a valid session user, on any of the four routes,
\* is answered 401 and neither reads nor writes the stored notes and terms:
\* no row changes and no query is dispatched
C22_UnauthorizedNoAccess ==
    [][\A s \in AuthSessions :
          (/\ NoSessionUser(s)
           /\ \/ GetNotes(s)
              \/ \E p \in AuthPayloads : PostNotes("c1", s, p)
              \/ DeleteNotes(s, "n1")
              \/ GetShared("c1", s))
          => /\ last'.status = 401
             /\ UNCHANGED <<notes, terms, req, hist>>]_vars

\* a delete without a session user was answered 401 while the owner's note
\* of that id and a term are stored
C22_Witness ==
    /\ last = [op |-> "delete", status |-> 401, id |-> "n1"]
    /\ \E r \in notes : r.id = last.id
    /\ terms # {}


\* an item of a sync payload with a string id and a string markdown
WellTyped(item) ==
    /\ item.type = "object"
    /\ item.id.type = "string"
    /\ item.markdown.type = "string"

\* C23: of the note items of a sync payload exactly the ones with a string
\* id and a string markdown are handed to the store, each with its own id
\* and markdown and in the order sent, and nothing else is written; a body
\* that is no JSON is answered 400 INVALID_JSON and changes nothing
C23_IllTypedFiltered ==
    /\ [](\A r \in notes : r.id # "n2")
    /\ [][\A b \in ValidBodies :
            PostNotesFrom("c1", SessionU1, b, RecordedItems(b)) =>
                IF ~b.valid
                THEN /\ last'.status = 400 /\ last'.error = "INVALID_JSON"
                     /\ UNCHANGED <<notes, terms, req, hist>>
                ELSE LET good == SelectSeq(ArrayOrEmpty(b.json.notes), WellTyped)
                         sent == req'["c1"].pending
                     IN /\ UNCHANGED <<notes, terms>>
                        /\ DOMAIN sent = DOMAIN good
                        /\ \A i \in DOMAIN good :
                              /\ sent[i].user_id = "u1"
                              /\ sent[i].id = good[i].id.str
                              /\ sent[i].markdown = good[i].markdown.str]_vars

\* a call whose payload held an ill-typed item before a well-typed one has
\* answered 200 and the well-typed item is stored
C23_Witness ==
    /\ Responded(200)
    /\ last.old.recorded
    /\ Len(last.old.sent) = 2
    /\ ~WellTyped(last.old.sent[1])
    /\ WellTyped(last.old.sent[2])
    /\ \E r \in notes :
          /\ r.id = last.old.sent[2].id.str
          /\ r.markdown = last.old.sent[2].markdown.str
          /\ r.last_modified = last.old.sent[2].lastModified.num


\* the lines of a document after its first line
LaterLines(doc) ==
    LET lines == SplitOn(doc, "\n") IN {lines[i] : i \in 2..Len(lines)}
NoMetadata ==
    /\ last.yaml = Undefined
    /\ last.body = last.doc
    /\ last.subset = NoSubset

\* C24, as claimed: a document that does not begin with --- , or that begins
\* with --- but has no later line that is the delimiter --- (white space may
\* follow it), is split into an absent metadata block and the whole input as
\* body, and the parser gives no visibility and no visibility_emails
C24_NoClosingLine ==
    (/\ last.op = "split"
     /\ \/ ~StartsWith(last.doc, Fence)
        \/ \A l \in LaterLines(last.doc) : TrimEnd(l) # Fence)
    => NoMetadata

\* C24, amended: the same for a document that does not begin with --- , or
\* that begins with --- but has no later line that begins with ---
C24_NoClosingFence ==
    (/\ last.op = "split"
     /\ \/ ~StartsWith(last.doc, Fence)
        \/ \A l \in LaterLines(last.doc) : ~StartsWith(l, Fence))
    => NoMetadata

\* a document with an opening delimiter line, a metadata line and no later
\* line that begins with --- has been split: all of it is body
C24_Witness ==
    /\ last.op = "split"
    /\ StartsWith(last.doc, <<"-", "-", "-", "\n", "a">>)
    /\ LaterLines(last.doc) # {}
    /\ \A l \in LaterLines(last.doc) : ~StartsWith(l, Fence)
    /\ NoMetadata


\* C25, as claimed: for every list of non-empty terms and every mapping of
\* terms to non-empty emails, the inline form and the block form parse to
\* the same visibility list and the same visibility_emails mapping
C25_FormsAgree ==
    last.op = "parsed" => last.inline = last.block

\* C25, amended: the two forms parse to the same result, whose visibility is
\* the list of the trimmed terms in order, when there is at least one term,
\* no term of the list or of the mapping is blank and no term of the mapping
\* contains a colon
C25_FormsAgreeOnPlainTerms ==
    (/\ last.op = "parsed"
     /\ last.vis # <<>>
     /\ \A i \in DOMAIN last.vis : Trim(last.vis[i]) # <<>>
     /\ \A k \in DOMAIN last.map :
           Trim(last.map[k].key) # <<>> /\ ~IncludesChar(last.map[k].key, ":"))
    => /\ last.inline = last.block
       /\ last.inline.visibility =
              Strs([i \in DOMAIN last.vis |-> Trim(last.vis[i])])

\* two terms and a mapping of both to their emails, as inline arrays and as
\* block lists, have been parsed to the same list and the same mapping
C25_Witness ==
    /\ last.op = "parsed"
    /\ last.vis = <<TermF, TermG>>
    /\ last.inline = last.block
    /\ last.block.visibility = Strs(<<TermF, TermG>>)
    /\ last.block.visibility_emails =
          [type |-> "object",
           entries |-> <<[key |-> TermF, val |-> Strs(<<EmailA>>)],
                         [key |-> TermG, val |-> Strs(<<EmailB, EmailA>>)]>>]


\* C26: a metadata block and the block with its visibility entry and its
\* visibility_emails entry swapped parse to the same result, the key after
\* the visibility_emails entry being read as a key of its own, and no line
\* is read for both entries
C26_SwapSameParse ==
    last.op = "swap" =>
        /\ last.parsedFirst = last.parsedSwapped
        /\ last.usedFirst.vis \cap last.usedFirst.em = {}
        /\ last.usedSwapped.vis \cap last.usedSwapped.em = {}

\* a block list of visibility that follows a visibility_emails mapping with
\* an entry in each form has been parsed, and both fields are set
C26_Witness ==
    /\ last.op = "swap"
    /\ last.v = <<LineVisibility, ItemF, ItemG>>
    /\ last.e = <<LineVisibilityEmails, MapFBlock, Item4A, MapG>>
    /\ last.swapped = last.e \o last.v
    /\ last.parsedSwapped.visibility = Strs(<<TermF, TermG>>)
    /\ last.parsedSwapped.visibility_emails =
          [type |-> "object",
           entries |-> <<[key |-> TermF, val |-> Strs(<<EmailA>>)],
                         [key |-> TermG, val |-> Strs(<<EmailB>>)]>>]
    /\ last.usedSwapped = [vis |-> 5..7, em |-> 1..4]


\* C27: the metadata parser is total: in every iteration of the outer loop
\* the line index ends beyond the line the iteration began at, in every
\* iteration of the inner loop the inner index does so and the outer index
\* is not set before the line of the visibility_emails key; the indices
\* stay within one line beyond the last, so the loops come to their end for
\* every sequence of lines; what the parser returns has each field unset or
\* parsed, the same as parseYamlSubset computes at once
C27_ParserTotal ==
    /\ [][/\ (last.op = "outer" /\ last'.op = "outer") => last'.i > last.i
          /\ (last.op = "outer" /\ last'.op = "inner") =>
                 last'.i = last.i /\ last'.j > last.i
          /\ (last.op = "inner" /\ last'.op = "inner") =>
                 last'.j > last.j /\ last'.i >= last.i /\ last'.i < last'.j
          /\ (last.op = "inner" /\ last'.op = "outer") =>
                 last'.i > last.i]_vars
    /\ [](last.op = "done" =>
             /\ last.result = parseYamlSubset(Str(last.yaml))
             /\ last.result.visibility.type \in {"undefined", "string", "array"}
             /\ last.result.visibility_emails.type \in {"undefined", "object"})
    /\ [](/\ last.op = "outer" => last.i \in 1..(Len(last.lines) + 1)
          /\ last.op = "inner" =>
                 last.i \in 1..Len(last.lines) /\ last.j \in 2..(Len(last.lines) + 1))

\* the parser has come to its end on lines none of which is well-formed,
\* among them a visibility_emails key with only malformed lines under it,
\* and has left both fields unset
C27_Witness ==
    /\ last.op = "done"
    /\ last.yaml = Join(<<LineVisibilityEmails, <<" ", " ", ":">>, Item4A>>, <<"\n">>)
    /\ last.result = NoSubset


\* C28: a delete leaves no row and no trace of its lastModified: the next
\* write the store applies to the key finds no row and is stored whatever
\* its lastModified; over steps that are no delete the row stays and its
\* lastModified does not decrease
C28_NoTombstone ==
    [][/\ (last'.op = "delete" /\ "old" \in DOMAIN last') =>
             RowAt(notes', last'.key) = NoRow
       /\ (last'.op = "upsert" /\ req' # req /\ RowAt(notes, KeyOf(last'.q)) = NoRow) =>
             RowAt(notes', KeyOf(last'.q)) = StoredRow(last'.q, now)
       /\ (last'.op # "delete") =>
             \A k \in Keys :
                 RowAt(notes, k) # NoRow =>
                     /\ RowAt(notes', k) # NoRow
                     /\ RowAt(notes', k).last_modified >= RowAt(notes, k).last_modified]_vars

\* a delete removed a row with lastModified T, and the first write applied
\* afterwards, with a smaller lastModified, is the stored row
C28_Witness ==
    /\ last.op = "upsert"
    /\ last.before = NoRow
    /\ req["c1"].pc = "upsert"
    /\ req["c1"].old.recorded
    /\ req["c1"].old.removed # NoRow
    /\ last.q.last_modified < req["c1"].old.removed.last_modified
    /\ Cells(RowAt(notes, KeyOf(last.q))) = RowOf(last.q)

(***************************************************************************)
(* Two owners who use the same note id and the same term name              *)
(***************************************************************************)
\* the session of each client: c1 is signed in as u1, c2 as u2
OwnerSessions ==
    [c \in Clients |->
        [user |-> [id |-> Str(IF c = "c1" THEN "u1" ELSE "u2"),
                   email |-> Str(EmailA)]]]

\* sync payloads of one note n1, or of the term f with the client's address
OwnerPayloads(c) ==
    {[notes |-> Arr(<<n>>), visibilityTerms |-> Undefined] :
        n \in {x \in FailNoteItems : x.id.str = "n1"}}
    \cup {[notes |-> Arr(<<>>),
           visibilityTerms |->
               Arr(<<TermItem(TermF, <<IF c = "c1" THEN EmailA ELSE EmailB>>)>>)]}

\* Sync calls, deletes and listings of two owners, overlapping
NextOwners ==
    \/ \E c \in Clients : \E p \in OwnerPayloads(c) :
          PostNotes(c, OwnerSessions[c], JsonBody(p))
    \/ \E c \in Clients : \E i \in DOMAIN req[c].pending : StoreUpsert(c, i)
    \/ \E c \in Clients : SyncTerms(c)
    \/ \E c \in Clients : \E i \in DOMAIN req[c].pending : StoreInsert(c, i)
    \/ \E c \in Clients : SyncInserted(c)
    \/ \E c \in Clients : SyncRespond(c)
    \/ \E c \in Clients : DeleteNotes(OwnerSessions[c], "n1")
    \/ \E c \in Clients : GetNotes(OwnerSessions[c])

SpecOwners == Init /\ [][NextOwners]_vars

\* the rows of one owner in each table
OwnNotes(tbl, a) == {r \in tbl : r.user_id = a}
OwnTerms(tbl, a) == {r \in tbl : r.user_id = a}

\* the lists a response carries, computed from one owner's rows alone
NotesOfRows(rows) ==
    {[id |-> r.id, markdown |-> r.markdown, sourceName |-> r.source_name,
      lastModified |-> r.last_modified] : r \in rows}
TermsOfRows(rows) == {[term |-> r.term, emails |-> r.emails] : r \in rows}

\* every other owner's rows are the same after the step as before
OthersKept(u) ==
    \A a \in Users \ {u} :
        /\ OwnNotes(notes', a) = OwnNotes(notes, a)
        /\ OwnTerms(terms', a) = OwnTerms(terms, a)

\* C29: the notes and terms of a 200 response of GET /api/notes and of
\* POST /api/notes are computed from the rows of the session user alone, and
\* no step of a sync call or of a delete of one user changes a note row or
\* a term row of another user, whatever ids and term names they share
C29_OwnerIsolation ==
    [][/\ \A c \in Clients :
             (last'.op \in {"start", "upsert", "terms", "insert", "inserted", "respond"}
              /\ last'.client = c /\ req'[c] # req[c]) =>
                 OthersKept(IF req[c].pc = "idle" THEN req'[c].user ELSE req[c].user)
       /\ (last'.op = "delete" /\ "key" \in DOMAIN last') => OthersKept(last'.key[1])
       /\ (last'.op \in {"respond", "notes"} /\ last'.status = 200) =>
             /\ last'.notes = NotesOfRows(OwnNotes(notes, last'.user))
             /\ last'.visibilityTerms = TermsOfRows(OwnTerms(terms, last'.user))]_vars

\* u1's sync call answers with u1's note n1 and u1's term f while u2 owns a
\* different note n1 and a different term f
C29_Witness ==
    /\ last.op = "respond"
    /\ last.status = 200
    /\ last.user = "u1"
    /\ RowAt(notes, <<"u1", "n1">>) # NoRow
    /\ RowAt(notes, <<"u2", "n1">>) # NoRow
    /\ RowAt(notes, <<"u1", "n1">>).markdown # RowAt(notes, <<"u2", "n1">>).markdown
    /\ last.notes = NotesOfRows({RowAt(notes, <<"u1", "n1">>)})
    /\ last.visibilityTerms = {[term |-> TermF, emails |-> <<EmailA>>]}
    /\ TermsOfRows(OwnTerms(terms, "u2")) = {[term |-> TermF, emails |-> <<EmailB>>]}

(***************************************************************************)
(* The steps of one sync call with a store that may reject a query         *)
(***************************************************************************)
\* sync payloads of at most one note n1 and of no term list or one term
OrderPayloads ==
    {[notes |-> Arr(b), visibilityTerms |-> t] :
        b \in SeqsOfLen({x \in FailNoteItems : x.id.str = "n1"}, {0, 1}),
        t \in {Undefined, Arr(<<TermItem(TermF, <<EmailA>>)>>),
               Arr(<<TermItem(TermG, <<EmailB>>)>>)}}

\* what the history keeps of the moment a request begins: both tables and
\* the writes of the batch
RecordedTables(u, payload) ==
    [recorded |-> TRUE, notes |-> notes, terms |-> terms,
     batch |-> upsertNotesForUser(u, validNotes(payload), now)]

\* Sync calls of one user, one after the other, with a store that may
\* reject a write
NextOrder ==
    \/ \E p \in OrderPayloads : SyncStartFrom("c1", "u1", p, RecordedTables("u1", p))
    \/ \E i \in DOMAIN req["c1"].pending : StoreUpsert("c1", i)
    \/ \E i \in DOMAIN req["c1"].pending : StoreRejects("c1", i)
    \/ SyncUpsertFailed("c1")
    \/ SyncTerms("c1")
    \/ \E i \in DOMAIN req["c1"].pending : StoreInsert("c1", i)
    \/ SyncInserted("c1")
    \/ SyncRespond("c1")
    \/ SyncDrained("c1")

SpecOrder == Init /\ [][NextOrder]_vars

\* every write of the batch has been applied by the store
BatchApplied(batch) ==
    \A i \in DOMAIN batch :
        /\ RowAt(notes, KeyOf(batch[i])) # NoRow
        /\ RowAt(notes, KeyOf(batch[i])).last_modified >= batch[i].last_modified

\* C30: the term rows change only after every note write of the call was
\* applied; a call whose note upsert fails answers 500 with the owner's
\* terms as they were when it began, and with the notes as they were when
\* the rejected write was its only one (it is not sent again); a call that
\* answers 200 returns the notes and terms stored at that moment, after its
\* note writes were applied and its submitted terms were stored
C30_FixedOrderNoRetry ==
    [][/\ (terms' # terms) => BatchApplied(req["c1"].old.batch)
       /\ (last'.op = "respond" /\ req' # req /\ last'.status = 500
           /\ req["c1"].pc = "upsert") =>
             /\ terms' = last'.old.terms
             /\ Len(last'.old.batch) = 1 => notes' = last'.old.notes
       /\ (last'.op = "respond" /\ req' # req /\ last'.status = 200) =>
             /\ BatchApplied(last'.old.batch)
             /\ last'.notes = NotesOfRows(OwnNotes(notes, last'.user))
             /\ last'.visibilityTerms = TermsOfRows(OwnTerms(terms, last'.user))
             /\ last'.visibilityTerms =
                   IF SubmittedTerms(last'.termsIn) # {}
                   THEN SubmittedTerms(last'.termsIn)
                   ELSE TermsOfRows(OwnTerms(last'.old.terms, last'.user))]_vars

\* a call that submitted a note and a term answered 500 after its note write
\* was rejected, and the owner's earlier term is still the stored one
C30_Witness ==
    /\ Responded(500)
    /\ req["c1"].pc = "responded"
    /\ last.old.recorded
    /\ Len(last.old.batch) = 1
    /\ SubmittedTerms(last.termsIn) = {[term |-> TermF, emails |-> <<EmailA>>]}
    /\ TermsOfRows(OwnTerms(terms, "u1")) = {[term |-> TermG, emails |-> <<EmailB>>]}
    /\ notes = last.old.notes
    /\ terms = last.old.terms

====
